---------------------------- MODULE Spec2Model ----------------------------
(***************************************************************************)
(* A model of the lox-rust-2 pipeline: the lexer (src/src/lexer.rs), the   *)
(* single-pass Pratt compiler (src/src/parser.rs) and the stack VM         *)
(* (src/src/vm.rs).  Lexer and compiler are pure functions of the source   *)
(* text and are written as operators; the VM is the state machine, one     *)
(* action per opcode handler of VM::run, plus VM::interpret.               *)
(*                                                                         *)
(* A source text is a sequence of one-character strings.  Numbers (f64 in  *)
(* the program) are exact rationals num/den, which agree with f64 on the   *)
(* small integers the checked programs compute.                            *)
(***************************************************************************)
EXTENDS Integers, Sequences, FiniteSets, TLC

(***************************************************************************)
(* Characters                                                              *)
(***************************************************************************)
Digits == {"0", "1", "2", "3", "4", "5", "6", "7", "8", "9"}

Lower == {"a", "b", "c", "d", "e", "f", "g", "h", "i", "j", "k", "l", "m",
          "n", "o", "p", "q", "r", "s", "t", "u", "v", "w", "x", "y", "z"}

Upper == {"A", "B", "C", "D", "E", "F", "G", "H", "I", "J", "K", "L", "M",
          "N", "O", "P", "Q", "R", "S", "T", "U", "V", "W", "X", "Y", "Z"}

Alpha == Lower \cup Upper \cup {"_"}

Whitespace == {" ", "\t", "\r", "\n"}

\* usize::MAX; only ever compared with small values, never used in arithmetic
USIZE_MAX == 2147483647

DigitVal(c) ==
  CASE c = "0" -> 0 [] c = "1" -> 1 [] c = "2" -> 2 [] c = "3" -> 3
    [] c = "4" -> 4 [] c = "5" -> 5 [] c = "6" -> 6 [] c = "7" -> 7
    [] c = "8" -> 8 [] c = "9" -> 9

(***************************************************************************)
(* Tokens (token.rs)                                                       *)
(***************************************************************************)
Span(start, end) == [start |-> start, end |-> end]

Token(token_type, line, col, literal) ==
  [token_type |-> token_type, line |-> line, col |-> col, literal |-> literal]

(***************************************************************************)
(* Lexer (lexer.rs).  pos is the number of characters already taken from   *)
(* the Peekable<Chars> iterator; current is the byte counter the lexer     *)
(* maintains by hand.  The two are separate fields because the code        *)
(* updates them separately.                                                *)
(***************************************************************************)
Lexer_new(source) ==
  [raw_source |-> source, pos |-> 0, start |-> 0, current |-> 0,
   line |-> 1, col |-> 0, col_start |-> 0]

Lexer_iter(lx) == [lexer |-> lx, is_eof |-> FALSE]

\* self.source.peek(): "" stands for None
Lexer_peek(lx) ==
  IF lx.pos < Len(lx.raw_source) THEN lx.raw_source[lx.pos + 1] ELSE ""

\* self.source.next() without touching the counters
Lexer_source_next(lx) ==
  IF lx.pos < Len(lx.raw_source) THEN [lx EXCEPT !.pos = @ + 1] ELSE lx

RECURSIVE Lexer_skip_whitespace(_)
Lexer_skip_whitespace(lx) ==
  LET c == Lexer_peek(lx) IN
  IF c \in {" ", "\t", "\r"}
    THEN Lexer_skip_whitespace(
           Lexer_source_next([lx EXCEPT !.current = @ + 1, !.col = @ + 1]))
  ELSE IF c = "\n"
    THEN Lexer_skip_whitespace(
           Lexer_source_next([lx EXCEPT !.current = @ + 1, !.line = @ + 1,
                                        !.col = 0]))
  ELSE lx

Lexer_create_token(lx, token_type) ==
  Token(token_type, lx.line, lx.col_start, Span(lx.start, lx.current))

\* Lexer::advance: all characters of the checked sources are one byte long
Lexer_advance(lx) ==
  IF lx.pos < Len(lx.raw_source)
    THEN [lx EXCEPT !.pos = @ + 1, !.current = @ + 1, !.col = @ + 1]
    ELSE lx

Lexer_match_char(lx, expected) ==
  IF Lexer_peek(lx) = expected
    THEN [hit |-> TRUE,
          lx |-> [lx EXCEPT !.pos = @ + 1, !.current = @ + 1, !.col = @ + 1]]
    ELSE [hit |-> FALSE, lx |-> lx]

RECURSIVE Lexer_next_whitespace(_)
Lexer_next_whitespace(lx) ==
  LET c == Lexer_peek(lx) IN
  IF c = "" \/ c \in Whitespace THEN lx
  ELSE Lexer_next_whitespace(
         [lx EXCEPT !.current = @ + 1, !.col = @ + 1, !.pos = @ + 1])

\* &self.raw_source[start..end]
RawSlice(source, start, end) == SubSeq(source, start + 1, end)

Min(a, b) == IF a < b THEN a ELSE b

Lexer_check_keyword(lx, start, end, snippet) ==
  IF end <= Len(lx.raw_source) /\ RawSlice(lx.raw_source, start, end) = snippet
    THEN [hit |-> TRUE,
          lx |-> [lx EXCEPT !.pos = Min(@ + (end - start), Len(lx.raw_source)),
                            !.current = @ + (end - start),
                            !.col = @ + (end - start)]]
    ELSE [hit |-> FALSE, lx |-> lx]

OkItem(lx, token) == [lx |-> lx, ok |-> TRUE, token |-> token]

ErrItem(lx, kind, line, col) ==
  [lx |-> lx, ok |-> FALSE, err |-> [kind |-> kind, line |-> line, col |-> col]]

RECURSIVE Lexer_single_line_comment_loop(_)
Lexer_single_line_comment_loop(lx) ==
  LET next_c == Lexer_peek(lx) IN
  IF next_c = "" THEN lx
  ELSE IF next_c = "\n" THEN Lexer_source_next(lx)
  ELSE Lexer_single_line_comment_loop(
         [lx EXCEPT !.pos = @ + 1, !.current = @ + 1, !.col = @ + 1])

Lexer_single_line_comment(lx) ==
  LET l1 == Lexer_single_line_comment_loop(lx) IN
  OkItem([l1 EXCEPT !.line = @ + 1, !.current = @ + 1, !.col = 0],
         Lexer_create_token(l1, "Comment"))

RECURSIVE Lexer_multi_line_comment(_, _)
Lexer_multi_line_comment(lx, start_line) ==
  LET next_c == Lexer_peek(lx) IN
  IF next_c = ""
    THEN ErrItem(Lexer_next_whitespace(lx), "CommentNotTerminated",
                 lx.line, lx.col + 2)
  ELSE LET l1 == Lexer_source_next(lx) IN
    IF next_c = "*"
      THEN LET next_next_c == Lexer_peek(l1) IN
           IF next_next_c = ""
             THEN ErrItem(Lexer_next_whitespace(l1), "UnterminatedString",
                          l1.line, l1.col + 2)
           ELSE IF next_next_c = "/"
             THEN LET l2 == [Lexer_source_next(l1) EXCEPT !.current = @ + 2,
                                                         !.col = @ + 2]
                  IN OkItem(l2, Token("Comment", start_line, l2.col_start,
                                      Span(l2.start, l2.current)))
           ELSE Lexer_multi_line_comment(l1, start_line)
    ELSE IF next_c = "\n"
      THEN Lexer_multi_line_comment(
             [l1 EXCEPT !.current = @ + 1, !.col = 0, !.line = @ + 1],
             start_line)
    ELSE Lexer_multi_line_comment(
           [l1 EXCEPT !.current = @ + 1, !.col = @ + 1], start_line)

RECURSIVE Lexer_string(_, _)
Lexer_string(lx, c) ==
  LET next_c == Lexer_peek(lx) IN
  IF next_c = ""
    THEN ErrItem(Lexer_next_whitespace(lx), "UnterminatedString",
                 lx.line, lx.col + 2)
  ELSE LET l1 == Lexer_source_next(lx) IN
    IF next_c = c
      THEN LET l2 == [l1 EXCEPT !.current = @ + 1, !.col = @ + 1]
           IN OkItem(l2, Lexer_create_token(l2, "String"))
    ELSE IF next_c = "\n"
      THEN Lexer_string([l1 EXCEPT !.current = @ + 1, !.col = 0,
                                   !.line = @ + 1], c)
    ELSE Lexer_string([l1 EXCEPT !.current = @ + 1, !.col = @ + 1], c)

RECURSIVE Lexer_number(_, _)
Lexer_number(lx, has_dot) ==
  LET next_c == Lexer_peek(lx) IN
  IF next_c = "" THEN OkItem(lx, Lexer_create_token(lx, "Number"))
  ELSE IF next_c = "."
    THEN IF has_dot
           THEN ErrItem(Lexer_next_whitespace(lx), "UnexpectedCharacter",
                        lx.line, lx.col + 2)
           ELSE Lexer_number(Lexer_source_next(lx), TRUE)
  ELSE IF next_c \in Digits
    THEN Lexer_number([lx EXCEPT !.current = @ + 1, !.col = @ + 1,
                                 !.pos = @ + 1], has_dot)
  ELSE IF next_c \in Alpha
    THEN ErrItem(Lexer_next_whitespace(lx), "UnexpectedCharacter",
                 lx.line, lx.col + 2)
  ELSE OkItem(lx, Lexer_create_token(lx, "Number"))

RECURSIVE Lexer_identifier_loop(_)
Lexer_identifier_loop(lx) ==
  LET next_c == Lexer_peek(lx) IN
  IF next_c \in Digits \cup Alpha
    THEN Lexer_identifier_loop(
           [lx EXCEPT !.current = @ + 1, !.col = @ + 1, !.pos = @ + 1])
    ELSE OkItem(lx, Lexer_create_token(lx, "Identifier"))

\* one arm of the first-character dispatch: check_keyword, else the scan
Lexer_keyword_arm(lx, from, to, snippet, token_type) ==
  LET k == Lexer_check_keyword(lx, lx.start + from, lx.start + to, snippet) IN
  IF k.hit THEN OkItem(k.lx, Lexer_create_token(k.lx, token_type))
  ELSE Lexer_identifier_loop(lx)

\* an arm of the two-character dispatch ('f' and 't'): after check_keyword
\* the code takes one more character from the iterator
Lexer_keyword_arm2(lx, from, to, snippet, token_type) ==
  LET k == Lexer_check_keyword(lx, lx.start + from, lx.start + to, snippet) IN
  IF k.hit
    THEN LET l2 == [Lexer_source_next(k.lx) EXCEPT !.current = @ + 1,
                                                   !.col = @ + 1]
         IN OkItem(l2, Lexer_create_token(l2, token_type))
    ELSE Lexer_identifier_loop(lx)

Lexer_identifier(lx, c) ==
  CASE c = "a" -> Lexer_keyword_arm(lx, 1, 3, <<"a", "n", "d">>, "And")
    [] c = "c" -> Lexer_keyword_arm(lx, 1, 5, <<"l", "a", "s", "s">>, "Class")
    [] c = "e" -> Lexer_keyword_arm(lx, 1, 4, <<"l", "s", "e">>, "Else")
    [] c = "i" -> Lexer_keyword_arm(lx, 1, 2, <<"f">>, "If")
    [] c = "n" -> Lexer_keyword_arm(lx, 1, 3, <<"i", "l">>, "Nil")
    [] c = "o" -> Lexer_keyword_arm(lx, 1, 2, <<"r">>, "Or")
    [] c = "p" -> Lexer_keyword_arm(lx, 1, 5, <<"r", "i", "n", "t">>, "Print")
    [] c = "r" -> Lexer_keyword_arm(lx, 1, 6, <<"e", "t", "u", "r", "n">>,
                                    "Return")
    [] c = "s" -> Lexer_keyword_arm(lx, 1, 5, <<"u", "p", "e", "r">>, "Super")
    [] c = "v" -> Lexer_keyword_arm(lx, 1, 3, <<"a", "r">>, "Var")
    [] c = "w" -> Lexer_keyword_arm(lx, 1, 5, <<"h", "i", "l", "e">>, "While")
    [] c = "f" ->
         LET next_c == Lexer_peek(lx) IN
         IF next_c = "" THEN OkItem(lx, Lexer_create_token(lx, "Identifier"))
         ELSE IF next_c = "a"
           THEN Lexer_keyword_arm2(lx, 2, 5, <<"l", "s", "e">>, "False")
         ELSE IF next_c = "o"
           THEN Lexer_keyword_arm2(lx, 2, 3, <<"r">>, "For")
         ELSE IF next_c = "u"
           THEN Lexer_keyword_arm2(lx, 2, 3, <<"n">>, "Fun")
         ELSE Lexer_identifier_loop(lx)
    [] c = "t" ->
         LET next_c == Lexer_peek(lx) IN
         IF next_c = "" THEN OkItem(lx, Lexer_create_token(lx, "Identifier"))
         ELSE IF next_c = "h"
           THEN Lexer_keyword_arm2(lx, 2, 4, <<"i", "s">>, "This")
         ELSE IF next_c = "r"
           THEN Lexer_keyword_arm2(lx, 2, 4, <<"u", "e">>, "True")
         ELSE Lexer_identifier_loop(lx)
    [] OTHER -> Lexer_identifier_loop(lx)

Lexer_two_char(lx, second, double_type, single_type) ==
  LET m == Lexer_match_char(lx, second) IN
  OkItem(m.lx, Lexer_create_token(m.lx, IF m.hit THEN double_type
                                                 ELSE single_type))

Lexer_next_token(lx0) ==
  LET l0 == [lx0 EXCEPT !.col_start = lx0.col, !.start = lx0.current]
      c  == Lexer_peek(l0)
      lx == Lexer_advance(l0)
  IN
  IF c = "" THEN OkItem(lx, Lexer_create_token(lx, "Eof"))
  ELSE CASE c = "(" -> OkItem(lx, Lexer_create_token(lx, "LeftParen"))
    [] c = ")" -> OkItem(lx, Lexer_create_token(lx, "RightParen"))
    [] c = "{" -> OkItem(lx, Lexer_create_token(lx, "LeftBrace"))
    [] c = "}" -> OkItem(lx, Lexer_create_token(lx, "RightBrace"))
    [] c = ";" -> OkItem(lx, Lexer_create_token(lx, "Semi"))
    [] c = "," -> OkItem(lx, Lexer_create_token(lx, "Comma"))
    [] c = "." -> OkItem(lx, Lexer_create_token(lx, "Dot"))
    [] c = "+" -> OkItem(lx, Lexer_create_token(lx, "Plus"))
    [] c = "-" -> OkItem(lx, Lexer_create_token(lx, "Minus"))
    [] c = "*" -> OkItem(lx, Lexer_create_token(lx, "Star"))
    [] c = "=" -> Lexer_two_char(lx, "=", "EqualEqual", "Equal")
    [] c = "!" -> Lexer_two_char(lx, "=", "BangEqual", "Bang")
    [] c = ">" -> Lexer_two_char(lx, "=", "GreaterEqual", "Greater")
    [] c = "<" -> Lexer_two_char(lx, "=", "LessEqual", "Less")
    [] c = "/" ->
         LET m1 == Lexer_match_char(lx, "/") IN
         IF m1.hit THEN Lexer_single_line_comment(m1.lx)
         ELSE LET m2 == Lexer_match_char(lx, "*") IN
              IF m2.hit THEN Lexer_multi_line_comment(m2.lx, m2.lx.line)
              ELSE OkItem(lx, Lexer_create_token(lx, "Slash"))
    [] c = "\"" \/ c = "'" -> Lexer_string(lx, c)
    [] c \in Digits -> Lexer_number(lx, FALSE)
    [] c \in Alpha -> Lexer_identifier(lx, c)
    [] OTHER -> ErrItem(lx, "UnexpectedCharacter", lx.line, lx.col + 1)

\* the Some(..) arm of LexerIterator::next for the result r of next_token
LexerIterator_some(r) ==
  [it   |-> [lexer |-> r.lx, is_eof |-> r.ok /\ r.token.token_type = "Eof"],
   some |-> TRUE,
   item |-> IF r.ok THEN [ok |-> TRUE, token |-> r.token]
                    ELSE [ok |-> FALSE, err |-> r.err]]

\* LexerIterator_next without the test of is_eof
LexerIterator_next_past_eof(it) ==
  LexerIterator_some(Lexer_next_token(Lexer_skip_whitespace(it.lexer)))

\* LexerIterator::next: "None" once Eof has been handed out
LexerIterator_next(it) ==
  IF it.is_eof THEN [it |-> it, some |-> FALSE]
  ELSE LexerIterator_some(Lexer_next_token(Lexer_skip_whitespace(it.lexer)))

\* Everything the iterator yields from the item r on, in order.  The parser
\* pulls items one at a time and never feeds anything back, so the lazily
\* produced sequence is this one.
RECURSIVE LexerIterator_collect(_)
LexerIterator_collect(r) ==
  IF r.some THEN <<r.item>> \o LexerIterator_collect(LexerIterator_next(r.it))
  ELSE <<>>

Lex(source) ==
  LexerIterator_collect(
    LexerIterator_next(Lexer_iter(Lexer_new(source))))

(***************************************************************************)
(* Values (value.rs), chunks and opcodes (vm.rs)                           *)
(***************************************************************************)
Nil == [tag |-> "Nil"]

Bool(b) == [tag |-> "Bool", value |-> b]

\* Number { value: f64 }: the exact rational num/den, den > 0, in lowest terms
Number(num, den) == [tag |-> "Number", num |-> num, den |-> den]

String(chars) == [tag |-> "String", value |-> chars]

FunctionValue(function) == [tag |-> "Function", value |-> function]

NativeFnValue(name) == [tag |-> "NativeFn", name |-> name]

Function_new(arity, chunk, name) ==
  [arity |-> arity, chunk |-> chunk, name |-> name]

\* Option<String>::None for the name of the script function
NoName == <<"<", "s", "c", "r", "i", "p", "t", ">">>

OP_RETURN == 0
OP_CONSTANT == 1
OP_NEGATE == 2
OP_NOT == 3
OP_ADD == 4
OP_SUBTRACT == 5
OP_MULTIPLY == 6
OP_DIVIDE == 7
OP_NIL == 8
OP_TRUE == 9
OP_FALSE == 10
OP_EQUAL == 11
OP_GREATER == 12
OP_LESS == 13
OP_PRINT == 14
OP_POP == 15
OP_DEFINE_GLOBAL == 16
OP_GET_GLOBAL == 17
OP_SET_GLOBAL == 18
OP_GET_LOCAL == 19
OP_SET_LOCAL == 20
OP_JUMP_IF_FALSE == 21
OP_JUMP == 22
OP_LOOP == 23
OP_CALL == 24

Loc(line, col) == [line |-> line, col |-> col]

Chunk_new == [instructions |-> <<>>, constants |-> <<>>, loc |-> <<>>]

\* Chunk_write pushing the instruction without its location
Chunk_write_unlocated(chunk, op, line, col) ==
  [chunk EXCEPT !.instructions = Append(@, op)]

Chunk_write(chunk, op, line, col) ==
  [chunk EXCEPT !.instructions = Append(@, op),
                !.loc = Append(@, Loc(line, col))]

\* the index add_constant returns is the length before the push
Chunk_add_constant(chunk, value) ==
  [chunk EXCEPT !.constants = Append(@, value)]

Chunk_len(chunk) == Len(chunk.instructions)

(***************************************************************************)
(* Parser / compiler (parser.rs).  A parser state P carries the fields of  *)
(* struct Parser; tokens is the item sequence and the number of items      *)
(* already pulled.  reported collects what is written to stderr; crashed   *)
(* records that the compiler has panicked (unwrap or slice out of range).  *)
(***************************************************************************)
PREC_NONE == 0
PREC_ASSIGNMENT == 1
PREC_OR == 2
PREC_AND == 3
PREC_EQUALITY == 4
PREC_COMPARISON == 5
PREC_TERM == 6
PREC_FACTOR == 7
PREC_UNARY == 8
PREC_CALL == 9
PREC_PRIMARY == 10

Precedence_from_u8(n) == IF n \in 0..10 THEN n ELSE PREC_NONE

get_prefix_rule(token_type) ==
  CASE token_type = "LeftParen" -> "Group"
    [] token_type \in {"Minus", "Bang"} -> "Unary"
    [] token_type = "Identifier" -> "Variable"
    [] token_type = "String" -> "String"
    [] token_type = "Number" -> "Number"
    [] token_type \in {"False", "Nil", "True"} -> "Literal"
    [] OTHER -> "None"

get_infix_rule(token_type) ==
  CASE token_type = "LeftParen" -> "Call"
    [] token_type \in {"Minus", "Plus", "Star", "Slash", "EqualEqual",
                       "BangEqual", "Greater", "GreaterEqual", "Less",
                       "LessEqual"} -> "Binary"
    [] token_type = "And" -> "And"
    [] token_type = "Or" -> "Or"
    [] OTHER -> "None"

get_precedence_rule(token_type) ==
  CASE token_type = "LeftParen" -> PREC_CALL
    [] token_type \in {"Minus", "Plus"} -> PREC_TERM
    [] token_type \in {"Star", "Slash"} -> PREC_FACTOR
    [] token_type \in {"EqualEqual", "BangEqual"} -> PREC_EQUALITY
    [] token_type \in {"Greater", "GreaterEqual", "Less", "LessEqual"} ->
         PREC_COMPARISON
    [] token_type = "And" -> PREC_AND
    [] token_type = "Or" -> PREC_OR
    [] OTHER -> PREC_NONE

Local_new(name, depth) == [name |-> name, depth |-> depth]

CompileFrame_new(function, function_type, locals, scope_depth) ==
  [function |-> function, function_type |-> function_type,
   locals |-> locals, scope_depth |-> scope_depth]

\* patched and looped are no fields of the Parser: they keep, for the
\* properties, what patch_jump and emit_loop were called with.  Nor are
\* opened and closed: opened keeps, for every begin_scope, the compile frame
\* it was called in and how many locals the frame had, and closed keeps what
\* every end_scope found and what it left; slots keeps, for every GET_LOCAL or
\* SET_LOCAL emitted, the slot, the depth of compile frames, and how many
\* locals of the frame were initialized (parameters are locals of the
\* frame); declared keeps, for every call of declaration(), the token it was
\* made at and how many lexer items the call pulled
Parser_new(source) ==
  [source |-> source, tokens |-> Lex(source), pulled |-> 0,
   previous |-> Token("Error", 0, 0, Span(0, 0)),
   current |-> Token("Error", 0, 0, Span(0, 0)),
   had_error |-> FALSE, panic |-> FALSE,
   frames |-> <<CompileFrame_new(Function_new(0, Chunk_new, NoName),
                                 "Script", <<>>, 0)>>,
   reported |-> <<>>, crashed |-> FALSE,
   patched |-> {}, looped |-> {}, opened |-> <<>>, closed |-> {},
   slots |-> {}, declared |-> {}]

Parser_current_frame(P) == P.frames[Len(P.frames)]

Parser_current_chunk(P) == Parser_current_frame(P).function.chunk

Parser_error_at_current(P, message) ==
  [P EXCEPT !.had_error = TRUE,
            !.reported = Append(@, [line |-> P.current.line,
                                    col |-> P.current.col,
                                    at_end |-> P.current.token_type = "Eof",
                                    message |-> message])]

RECURSIVE Parser_advance_loop(_)
Parser_advance_loop(P) ==
  IF P.pulled >= Len(P.tokens) THEN P
  ELSE LET maybe_token == P.tokens[P.pulled + 1]
           P1 == [P EXCEPT !.pulled = @ + 1]
       IN IF maybe_token.ok
            THEN IF maybe_token.token.token_type = "Comment"
                   THEN Parser_advance_loop(P1)
                   ELSE [P1 EXCEPT !.current = maybe_token.token]
            ELSE Parser_advance_loop(
                   [P1 EXCEPT !.reported =
                                Append(@, [lexer_error |-> maybe_token.err.kind])])

Parser_advance(P) == Parser_advance_loop([P EXCEPT !.previous = P.current])

Parser_consume(P, token_type, error_message) ==
  IF P.current.token_type = token_type THEN Parser_advance(P)
  ELSE Parser_error_at_current(P, error_message)

Parser_check_type(P, token_type) == P.current.token_type = token_type

\* &self.source[start..end]; the slice panics when it is out of range
SliceInRange(source, span) ==
  span.start <= span.end /\ span.end <= Len(source)

Parser_span_to_str(P, span) ==
  IF SliceInRange(P.source, span) THEN RawSlice(P.source, span.start, span.end)
  ELSE <<>>

Parser_slice_check(P, span) ==
  IF SliceInRange(P.source, span) THEN P ELSE [P EXCEPT !.crashed = TRUE]

Parser_emit_op(P, op) ==
  [P EXCEPT !.frames[Len(P.frames)].function.chunk =
              Chunk_write(@, op, P.previous.line, P.previous.col)]

Parser_emit_op_usize(P, op) == Parser_emit_op(P, op)

Parser_emit_ops(P, op1, op2) == Parser_emit_op(Parser_emit_op(P, op1), op2)

Parser_emit_ops_usize(P, op1, op2) ==
  Parser_emit_op_usize(Parser_emit_op(P, op1), op2)

\* Parser_emit_constant writing the opcode without its operand
Parser_emit_constant_bare(P, value) ==
  [P EXCEPT !.frames[Len(P.frames)].function.chunk =
              Chunk_write(Chunk_add_constant(@, value), OP_CONSTANT,
                          P.previous.line, P.previous.col)]

Parser_emit_constant(P, value) ==
  LET pos == Len(Parser_current_chunk(P).constants) IN
  [P EXCEPT !.frames[Len(P.frames)].function.chunk =
              Chunk_write(
                Chunk_write(Chunk_add_constant(@, value), OP_CONSTANT,
                            P.previous.line, P.previous.col),
                pos, P.previous.line, P.previous.col)]

\* the placeholder operand is the last instruction written: its index, which
\* emit_jump returns, is the length of the chunk minus one
Parser_emit_jump(P, op) ==
  Parser_emit_op_usize(Parser_emit_op(P, op), USIZE_MAX)

\* Parser_patch_jump measuring the jump from the operand, not from after it
Parser_patch_jump_from_operand(P, offset) ==
  LET jump == Chunk_len(Parser_current_chunk(P)) - offset IN
  [P EXCEPT !.frames[Len(P.frames)].function.chunk.instructions[offset + 1] =
              jump,
            !.patched = @ \cup
              {[name |-> Parser_current_frame(P).function.name,
                at |-> offset,
                len |-> Chunk_len(Parser_current_chunk(P))]}]

Parser_patch_jump(P, offset) ==
  LET jump == Chunk_len(Parser_current_chunk(P)) - offset - 1 IN
  [P EXCEPT !.frames[Len(P.frames)].function.chunk.instructions[offset + 1] =
              jump,
            !.patched = @ \cup
              {[name |-> Parser_current_frame(P).function.name,
                at |-> offset,
                len |-> Chunk_len(Parser_current_chunk(P))]}]

Parser_emit_loop(P, loop_start) ==
  LET P1 == Parser_emit_op(P, OP_LOOP)
      offset == Chunk_len(Parser_current_chunk(P1)) - loop_start
  IN [Parser_emit_op_usize(P1, offset) EXCEPT
        !.looped = @ \cup
          {[name |-> Parser_current_frame(P).function.name,
            at |-> Chunk_len(Parser_current_chunk(P1)),
            loop_start |-> loop_start,
            len |-> Chunk_len(Parser_current_chunk(P))]}]

Parser_identifier_equal(P, a, b) ==
  /\ a.end - a.start = b.end - b.start
  /\ Parser_span_to_str(P, a) = Parser_span_to_str(P, b)

\* the reverse indices at which find_map sees a local with the same name
ResolveHits(P, name) ==
  LET locals == Parser_current_frame(P).locals
      n == Len(locals)
  IN {i \in 0..(n - 1) : Parser_identifier_equal(P, name, locals[n - i].name)}

SetMin(S) == CHOOSE m \in S : \A k \in S : m <= k

\* resolve_local returns the position in the REVERSED iteration
Parser_resolve_local_index(P, name) ==
  LET locals == Parser_current_frame(P).locals
      n == Len(locals)
      found == {i \in ResolveHits(P, name) : locals[n - i].depth # 0}
  IN IF found = {} THEN USIZE_MAX ELSE SetMin(found)

Parser_resolve_local(P, name) ==
  LET locals == Parser_current_frame(P).locals
      n == Len(locals)
      resolved == Parser_resolve_local_index(P, name)
      error == \E i \in ResolveHits(P, name) :
                 locals[n - i].depth = 0 /\ i < resolved
  IN IF error
       THEN Parser_error_at_current(
              P, "Can't read local variable in its own initializer.")
       ELSE P

Parser_identifier_constant(P, name) ==
  [Parser_slice_check(P, name) EXCEPT
     !.frames[Len(P.frames)].function.chunk =
        Chunk_add_constant(@, String(Parser_span_to_str(P, name)))]

\* the index identifier_constant returns, read before the push
NextConstant(P) == Len(Parser_current_chunk(P).constants)

RECURSIVE GCD(_, _)
GCD(a, b) == IF b = 0 THEN a ELSE GCD(b, a % b)

Abs(n) == IF n < 0 THEN -n ELSE n

\* a rational in lowest terms with a positive denominator (den # 0)
Rational(num, den) ==
  LET g == GCD(Abs(num), Abs(den))
      s == IF den < 0 THEN -1 ELSE 1
  IN Number((s * num) \div g, (s * den) \div g)

RECURSIVE Pow10(_)
Pow10(k) == IF k = 0 THEN 1 ELSE 10 * Pow10(k - 1)

RECURSIVE DigitsValue(_)
DigitsValue(chars) ==
  IF chars = <<>> THEN 0
  ELSE 10 * DigitsValue(SubSeq(chars, 1, Len(chars) - 1))
       + DigitVal(chars[Len(chars)])

\* str::parse::<f64> on the texts a Number span can hold: digits with at
\* most one '.', at least one digit.  Anything else is Err.
ParseF64Ok(chars) ==
  /\ \A i \in 1..Len(chars) : chars[i] \in Digits \cup {"."}
  /\ Cardinality({i \in 1..Len(chars) : chars[i] = "."}) <= 1
  /\ \E i \in 1..Len(chars) : chars[i] \in Digits

ParseF64(chars) ==
  LET dots == {i \in 1..Len(chars) : chars[i] = "."} IN
  IF dots = {} THEN Number(DigitsValue(chars), 1)
  ELSE LET d == CHOOSE i \in dots : TRUE
           int_part == SubSeq(chars, 1, d - 1)
           frac_part == SubSeq(chars, d + 1, Len(chars))
       IN Rational(DigitsValue(int_part \o frac_part), Pow10(Len(frac_part)))

RECURSIVE Parser_parse_precedence(_, _)
RECURSIVE Parser_declaration(_)
RECURSIVE Parser_statement(_)

Parser_expression(P) == Parser_parse_precedence(P, PREC_ASSIGNMENT)

Parser_number(P) ==
  LET num_str == Parser_span_to_str(P, P.previous.literal) IN
  IF SliceInRange(P.source, P.previous.literal) /\ ParseF64Ok(num_str)
    THEN Parser_emit_constant(P, ParseF64(num_str))
    ELSE [P EXCEPT !.crashed = TRUE]

Parser_group(P) ==
  Parser_consume(Parser_expression(P), "RightParen",
                 "Expected ')' after expression.")

\* the match on operator_type that ends unary(), P being the parser after
\* the operand has been compiled
Parser_unary_emit(P, operator_type) ==
  CASE operator_type = "Minus" -> Parser_emit_op(P, OP_NEGATE)
    [] operator_type = "Bang" -> Parser_emit_op(P, OP_NOT)
    [] OTHER -> P

Parser_unary(P) ==
  Parser_unary_emit(Parser_parse_precedence(P, PREC_UNARY),
                    P.previous.token_type)

\* the match on operator_type that ends binary(), P being the parser after
\* the right operand has been compiled
Parser_binary_emit(P, operator_type) ==
  CASE operator_type = "Plus" -> Parser_emit_op(P, OP_ADD)
    [] operator_type = "Minus" -> Parser_emit_op(P, OP_SUBTRACT)
    [] operator_type = "Star" -> Parser_emit_op(P, OP_MULTIPLY)
    [] operator_type = "Slash" -> Parser_emit_op(P, OP_DIVIDE)
    [] operator_type = "EqualEqual" -> Parser_emit_op(P, OP_EQUAL)
    [] operator_type = "BangEqual" -> Parser_emit_ops(P, OP_EQUAL, OP_NOT)
    [] operator_type = "Greater" -> Parser_emit_op(P, OP_GREATER)
    [] operator_type = "GreaterEqual" -> Parser_emit_ops(P, OP_LESS, OP_NOT)
    [] operator_type = "Less" -> Parser_emit_op(P, OP_LESS)
    [] operator_type = "LessEqual" -> Parser_emit_ops(P, OP_GREATER, OP_NOT)
    [] OTHER -> P

\* Parser_binary compiling the right operand at the operator's own level
Parser_binary_same_level(P) ==
  LET operator_type == P.previous.token_type
      precedence == get_precedence_rule(operator_type)
  IN Parser_binary_emit(
       Parser_parse_precedence(P, Precedence_from_u8(precedence)),
       operator_type)

Parser_binary(P) ==
  LET operator_type == P.previous.token_type
      precedence == get_precedence_rule(operator_type)
  IN Parser_binary_emit(
       Parser_parse_precedence(P, Precedence_from_u8(precedence + 1)),
       operator_type)

Parser_literal(P) ==
  CASE P.previous.token_type = "False" -> Parser_emit_op(P, OP_FALSE)
    [] P.previous.token_type = "True" -> Parser_emit_op(P, OP_TRUE)
    [] P.previous.token_type = "Nil" -> Parser_emit_op(P, OP_NIL)
    [] OTHER -> P

Parser_string(P) ==
  LET literal == P.previous.literal
      inner == Span(literal.start + 1, literal.end - 1)
  IN Parser_emit_constant(Parser_slice_check(P, inner),
                          String(Parser_span_to_str(P, inner)))

\* the closing if/else of named_variable, once get_op, set_op and arg are set
Parser_named_variable_emit(P, get_op, set_op, arg, can_assign) ==
  IF can_assign /\ Parser_check_type(P, "Equal")
    THEN Parser_emit_ops_usize(Parser_expression(Parser_advance(P)),
                               set_op, arg)
    ELSE Parser_emit_ops_usize(P, get_op, arg)

\* named_variable after resolve_local has returned arg, P being the parser
\* resolve_local leaves behind
Parser_named_variable_ops(P, name, arg, can_assign) ==
  IF arg # USIZE_MAX
    THEN Parser_named_variable_emit(
           [P EXCEPT !.slots = @ \cup
              {[frames |-> Len(P.frames),
                slot |-> arg,
                arity |-> Parser_current_frame(P).function.arity,
                live |-> Len(SelectSeq(Parser_current_frame(P).locals,
                                       LAMBDA l : l.depth # USIZE_MAX))]}],
           OP_GET_LOCAL, OP_SET_LOCAL, arg, can_assign)
    ELSE Parser_named_variable_emit(Parser_identifier_constant(P, name),
                                    OP_GET_GLOBAL, OP_SET_GLOBAL,
                                    NextConstant(P), can_assign)

Parser_named_variable(P, name, can_assign) ==
  Parser_named_variable_ops(Parser_resolve_local(P, name), name,
                            Parser_resolve_local_index(P, name), can_assign)

Parser_variable(P, can_assign) ==
  Parser_named_variable(P, P.previous.literal, can_assign)

Parser_and(P) ==
  LET P1 == Parser_emit_jump(P, OP_JUMP_IF_FALSE)
      end_jump == Chunk_len(Parser_current_chunk(P1)) - 1
      P2 == Parser_emit_op(P1, OP_POP)
      P3 == Parser_parse_precedence(P2, PREC_AND)
  IN Parser_patch_jump(P3, end_jump)

Parser_or(P) ==
  LET P1 == Parser_emit_jump(P, OP_JUMP_IF_FALSE)
      else_jump == Chunk_len(Parser_current_chunk(P1)) - 1
      P2 == Parser_emit_jump(P1, OP_JUMP)
      end_jump == Chunk_len(Parser_current_chunk(P2)) - 1
      P3 == Parser_patch_jump(P2, else_jump)
      P4 == Parser_emit_op(P3, OP_POP)
      P5 == Parser_parse_precedence(P4, PREC_OR)
  IN Parser_patch_jump(P5, end_jump)

\* the end of argument_list: the final consume; the result carries the count
Parser_argument_list_end(P, arg_count) ==
  [P |-> Parser_consume(P, "RightParen", "Expected ')' after arguments."),
   arg_count |-> arg_count]

\* the loop of argument_list from the point where an argument expression
\* has just been compiled and arg_count already counts it
RECURSIVE Parser_argument_list_loop(_, _)
Parser_argument_list_loop(P, arg_count) ==
  IF Parser_check_type(P, "Comma")
    THEN Parser_argument_list_loop(Parser_expression(Parser_advance(P)),
                                   arg_count + 1)
    ELSE Parser_argument_list_end(P, arg_count)

Parser_argument_list(P) ==
  IF ~Parser_check_type(P, "RightParen")
    THEN Parser_argument_list_loop(Parser_expression(P), 1)
    ELSE Parser_argument_list_end(P, 0)

\* emit_ops_usize(Call, arg_count) for the result r of argument_list
Parser_call_emit(r) == Parser_emit_ops_usize(r.P, OP_CALL, r.arg_count)

Parser_call(P) == Parser_call_emit(Parser_argument_list(P))

Parser_parse_fn(P, parse_fn, can_assign) ==
  CASE parse_fn = "Number" -> Parser_number(P)
    [] parse_fn = "Group" -> Parser_group(P)
    [] parse_fn = "Unary" -> Parser_unary(P)
    [] parse_fn = "Binary" -> Parser_binary(P)
    [] parse_fn = "Literal" -> Parser_literal(P)
    [] parse_fn = "String" -> Parser_string(P)
    [] parse_fn = "Variable" -> Parser_variable(P, can_assign)
    [] parse_fn = "And" -> Parser_and(P)
    [] parse_fn = "Or" -> Parser_or(P)
    [] parse_fn = "Call" -> Parser_call(P)
    [] OTHER -> P

RECURSIVE Parser_infix_loop(_, _, _)
Parser_infix_loop(P, precedence, can_assign) ==
  IF precedence <= get_precedence_rule(P.current.token_type)
    THEN LET P1 == Parser_advance(P)
             infix_rule == get_infix_rule(P1.previous.token_type)
         IN Parser_infix_loop(Parser_parse_fn(P1, infix_rule, can_assign),
                              precedence, can_assign)
    ELSE P

\* Parser_parse_precedence_end taking the stray `=` without a word
Parser_parse_precedence_end_silent(P, can_assign) ==
  IF can_assign /\ Parser_check_type(P, "Equal") THEN Parser_advance(P) ELSE P

\* the last statement of parse_precedence
Parser_parse_precedence_end(P, can_assign) ==
  IF can_assign /\ Parser_check_type(P, "Equal")
    THEN Parser_error_at_current(Parser_advance(P),
                                 "Invalid assignment target.")
    ELSE P

Parser_parse_precedence(P, precedence) ==
  LET P1 == Parser_advance(P)
      prefix_rule == get_prefix_rule(P1.previous.token_type)
      can_assign == precedence <= PREC_ASSIGNMENT
  IN IF prefix_rule = "None"
       THEN Parser_error_at_current(P1, "Expected expression.")
       ELSE Parser_parse_precedence_end(
              Parser_infix_loop(Parser_parse_fn(P1, prefix_rule, can_assign),
                                precedence, can_assign),
              can_assign)

Parser_add_local(P, name) ==
  [P EXCEPT !.frames[Len(P.frames)].locals =
              Append(@, Local_new(name, USIZE_MAX))]

\* how many locals, from the most recent one backwards, take_while lets through
RECURSIVE TakeWhileCount(_, _, _)
TakeWhileCount(locals, scope_depth, k) ==
  IF k < Len(locals)
     /\ locals[Len(locals) - k].depth # USIZE_MAX
     /\ locals[Len(locals) - k].depth < scope_depth
    THEN TakeWhileCount(locals, scope_depth, k + 1)
    ELSE k

Parser_has_duplicate(P, name) ==
  LET frame == Parser_current_frame(P)
      n == Len(frame.locals)
      taken == TakeWhileCount(frame.locals, frame.scope_depth, 0)
  IN \E i \in 0..(taken - 1) :
       Parser_identifier_equal(P, name, frame.locals[n - i].name)

Parser_declare_variable(P) ==
  IF Parser_current_frame(P).scope_depth = 0 THEN P
  ELSE LET name == P.previous.literal
           P1 == IF Parser_has_duplicate(P, name)
                   THEN Parser_error_at_current(
                          P, "Already a variable with this name in this scope.")
                   ELSE P
       IN Parser_add_local(Parser_slice_check(P1, name), name)

\* the result carries the usize parse_variable returns
Parser_parse_variable(P, error_message) ==
  LET P1 == Parser_consume(P, "Identifier", error_message)
      P2 == Parser_declare_variable(P1)
  IN IF Parser_current_frame(P2).scope_depth > 0
       THEN [P |-> P2, var |-> 0]
       ELSE [P |-> Parser_identifier_constant(P2, P2.previous.literal),
             var |-> NextConstant(P2)]

\* locals.last_mut().unwrap() panics on an empty list
Parser_mark_initialized(P) ==
  LET frame == Parser_current_frame(P) IN
  IF frame.scope_depth = 0 THEN P
  ELSE IF frame.locals = <<>> THEN [P EXCEPT !.crashed = TRUE]
  ELSE [P EXCEPT !.frames[Len(P.frames)].locals[Len(frame.locals)].depth =
                   frame.scope_depth]

Parser_define_variable(P, var) ==
  IF Parser_current_frame(P).scope_depth > 0 THEN Parser_mark_initialized(P)
  ELSE Parser_emit_op_usize(Parser_emit_op(P, OP_DEFINE_GLOBAL), var)

Parser_begin_scope(P) ==
  [P EXCEPT !.frames[Len(P.frames)].scope_depth = @ + 1,
            !.opened = Append(@, [frame |-> Len(P.frames),
                                  locals |-> Len(Parser_current_frame(P).locals)])]

RECURSIVE Parser_end_scope_loop(_)
Parser_end_scope_loop(P) ==
  LET f == Parser_current_frame(P) IN
  IF f.locals # <<>> /\ f.locals[Len(f.locals)].depth > f.scope_depth
    THEN Parser_end_scope_loop(
           [Parser_emit_op(P, OP_POP) EXCEPT
              !.frames[Len(P.frames)].locals =
                 SubSeq(f.locals, 1, Len(f.locals) - 1)])
    ELSE P

\* the begin_scope calls of the compile frames still there, oldest first
Parser_open_scopes(P) ==
  SelectSeq(P.opened, LAMBDA o : o.frame <= Len(P.frames))

\* Q is what end_scope has made of P: the scope opened last is closed
Parser_scope_closed(P, Q) ==
  LET open == Parser_open_scopes(P)
      before == Parser_current_frame(P)
      after == Parser_current_frame(Q)
  IN [Q EXCEPT
        !.opened = SubSeq(open, 1, Len(open) - 1),
        !.closed = @ \cup
          {[declared |-> SubSeq(before.locals, open[Len(open)].locals + 1,
                                Len(before.locals)),
            removed |-> SubSeq(before.locals, Len(after.locals) + 1,
                               Len(before.locals)),
            left |-> after.locals,
            emitted |-> SubSeq(after.function.chunk.instructions,
                               Chunk_len(before.function.chunk) + 1,
                               Chunk_len(after.function.chunk)),
            depth |-> before.scope_depth,
            depth_left |-> after.scope_depth,
            at |-> P.current.token_type,
            had_error |-> P.had_error]}]

\* Parser_end_scope leaving the locals of the scope where they are
Parser_end_scope_keeping_locals(P) ==
  Parser_scope_closed(
    P, [P EXCEPT !.frames[Len(P.frames)].scope_depth = @ - 1])

Parser_end_scope(P) ==
  Parser_scope_closed(
    P,
    Parser_end_scope_loop(
      [P EXCEPT !.frames[Len(P.frames)].scope_depth = @ - 1]))

RECURSIVE Parser_synchronize_loop(_)
Parser_synchronize_loop(P) ==
  IF P.current.token_type = "Eof" THEN P
  ELSE IF P.previous.token_type = "Semi" THEN P
  ELSE IF P.current.token_type \in {"Class", "Fun", "Var", "For", "If",
                                    "While", "Print", "Return"} THEN P
  ELSE Parser_synchronize_loop(Parser_advance(P))

Parser_synchronize(P) == Parser_synchronize_loop([P EXCEPT !.panic = FALSE])

Parser_print_statement(P) ==
  LET P1 == Parser_expression(Parser_advance(P))
      P2 == Parser_consume(P1, "Semi", "Expected ';' after value.")
  IN Parser_emit_op(P2, OP_PRINT)

\* Parser_expression_statement without the POP
Parser_expression_statement_keeping(P) ==
  LET P1 == Parser_expression(P)
  IN Parser_consume(P1, "Semi", "Expected ';' after expression.")

Parser_expression_statement(P) ==
  LET P1 == Parser_expression(P)
      P2 == Parser_consume(P1, "Semi", "Expected ';' after expression.")
  IN Parser_emit_op(P2, OP_POP)

\* while !check(RightBrace) && !check(Eof) { declaration() }
RECURSIVE Parser_declarations_until_brace(_)
Parser_declarations_until_brace(P) ==
  IF ~Parser_check_type(P, "RightBrace") /\ ~Parser_check_type(P, "Eof")
    THEN Parser_declarations_until_brace(Parser_declaration(P))
    ELSE P

Parser_block(P) ==
  LET P1 == Parser_advance(Parser_begin_scope(P))
      P2 == Parser_declarations_until_brace(P1)
      P3 == Parser_consume(P2, "RightBrace", "Expected '}' after block.")
  IN Parser_end_scope(P3)

\* if_statement from the optional else branch on
Parser_if_statement_else(P, else_jump) ==
  Parser_patch_jump(IF Parser_check_type(P, "Else")
                      THEN Parser_statement(Parser_advance(P))
                      ELSE P,
                    else_jump)

\* if_statement from "let else_jump = emit_jump(Jump)" on, P being the parser
\* that emit_jump leaves behind
Parser_if_statement_patch(P, then_jump) ==
  Parser_if_statement_else(
    Parser_emit_op(Parser_patch_jump(P, then_jump), OP_POP),
    Chunk_len(Parser_current_chunk(P)) - 1)

\* if_statement from "let then_jump = emit_jump(JumpIfFalse)" on, P being the
\* parser that emit_jump leaves behind
Parser_if_statement_then(P) ==
  Parser_if_statement_patch(
    Parser_emit_jump(Parser_statement(Parser_emit_op(P, OP_POP)), OP_JUMP),
    Chunk_len(Parser_current_chunk(P)) - 1)

Parser_if_statement(P) ==
  LET P1 == Parser_consume(Parser_advance(P), "LeftParen",
                           "Expected '(' after 'if'.")
      P2 == Parser_consume(Parser_expression(P1), "RightParen",
                           "Expected ')' after condition.")
  IN Parser_if_statement_then(Parser_emit_jump(P2, OP_JUMP_IF_FALSE))

Parser_return_statement(P) ==
  LET P1 == Parser_advance(P) IN
  IF Parser_current_frame(P1).function_type = "Script"
    THEN Parser_error_at_current(P1, "Can't return from top-level code.")
  ELSE IF Parser_check_type(P1, "Semi")
    THEN Parser_emit_ops(Parser_advance(P1), OP_NIL, OP_RETURN)
  ELSE Parser_emit_op(
         Parser_consume(Parser_expression(P1), "Semi",
                        "Expected ';' after return value."),
         OP_RETURN)

\* while_statement from "let exit_jump = emit_jump(JumpIfFalse)" on, P being
\* the parser that emit_jump leaves behind
Parser_while_statement_body(P, loop_start) ==
  LET exit_jump == Chunk_len(Parser_current_chunk(P)) - 1
      P5 == Parser_statement(Parser_emit_op(P, OP_POP))
      P6 == Parser_emit_loop(P5, loop_start)
  IN Parser_emit_op(Parser_patch_jump(P6, exit_jump), OP_POP)

Parser_while_statement(P) ==
  LET P1 == Parser_advance(P)
      loop_start == Chunk_len(Parser_current_chunk(P1))
      P2 == Parser_consume(P1, "LeftParen", "Expected '(' after 'while'.")
      P3 == Parser_consume(Parser_expression(P2), "RightParen",
                           "Expected ')' after condition.")
  IN Parser_while_statement_body(Parser_emit_jump(P3, OP_JUMP_IF_FALSE),
                                 loop_start)

\* var_declaration after parse_variable has returned r
Parser_var_declaration_init(r) ==
  LET P1 == IF Parser_check_type(r.P, "Equal")
              THEN Parser_expression(Parser_advance(r.P))
              ELSE Parser_emit_op(r.P, OP_NIL)
      P2 == Parser_consume(P1, "Semi",
                           "Expected ';' after variable declaration")
  IN Parser_define_variable(P2, r.var)

Parser_var_declaration(P) ==
  Parser_var_declaration_init(
    Parser_parse_variable(Parser_advance(P), "Expect variable name."))

\* for_statement from "let loop_start = chunk.len()" on
Parser_for_statement_loop(P) ==
  LET loop_start == Chunk_len(Parser_current_chunk(P))
      P4 == Parser_consume(P, "Semi",
                           "Expected ';' after loop variable condition.")
      P5 == Parser_consume(P4, "RightParen", "Expected ')' after condition.")
      P6 == Parser_statement(P5)
  IN Parser_end_scope(Parser_emit_loop(P6, loop_start))

\* the initializer clause of for_statement: match_token(Semi) takes the `;`
\* and the body of that branch is one more advance()
Parser_for_initializer(P) ==
  IF Parser_check_type(P, "Semi")
    THEN Parser_advance(Parser_advance(P))
  ELSE IF Parser_check_type(P, "Var")
    THEN Parser_var_declaration(Parser_advance(P))
  ELSE Parser_expression_statement(P)

\* for_statement from the initializer clause on
Parser_for_statement_init(P) ==
  Parser_for_statement_loop(Parser_for_initializer(P))

Parser_for_statement(P) ==
  Parser_for_statement_init(
    Parser_consume(Parser_begin_scope(Parser_advance(P)), "LeftParen",
                   "Expected '(' after 'for'."))

\* define_variable(constant) for the result r of parse_variable
Parser_define_parsed(r) == Parser_define_variable(r.P, r.var)

\* one round of the parameter loop of function(), up to define_variable
Parser_function_parameter(P) ==
  Parser_define_parsed(
    Parser_parse_variable(
      [P EXCEPT !.frames[Len(P.frames)].function.arity = @ + 1],
      "Expected parameter name."))

\* the parameter loop of function() from its "if !match_token(Comma)" on
RECURSIVE Parser_function_parameters(_)
Parser_function_parameters(P) ==
  IF Parser_check_type(P, "Comma")
    THEN Parser_function_parameters(
           Parser_function_parameter(Parser_advance(P)))
    ELSE P

\* function() from "let frame = self.frames.pop()" on
Parser_function_end(P) ==
  Parser_emit_constant([P EXCEPT !.frames = SubSeq(@, 1, Len(@) - 1)],
                       FunctionValue(Parser_current_frame(P).function))

\* function() from the parameter list to emit_op(Return)
Parser_function_body(P) ==
  LET P3 == IF ~Parser_check_type(P, "RightParen")
              THEN Parser_function_parameters(Parser_function_parameter(P))
              ELSE P
      P4 == Parser_consume(P3, "RightParen",
                           "Expected ')' after function parameters.")
      P5 == Parser_consume(P4, "LeftBrace",
                           "Expected '{' before function body.")
      P6 == Parser_declarations_until_brace(P5)
      P7 == Parser_consume(P6, "RightBrace",
                           "Expected '}' after function body.")
  IN Parser_function_end(Parser_emit_op(P7, OP_RETURN))

Parser_function(P, function_type) ==
  LET name == Parser_span_to_str(P, P.previous.literal)
      frame == CompileFrame_new(Function_new(0, Chunk_new, name),
                                function_type, <<>>,
                                Parser_current_frame(P).scope_depth)
      P1 == [Parser_slice_check(P, P.previous.literal) EXCEPT
               !.frames = Append(@, frame)]
  IN Parser_function_body(
       Parser_consume(Parser_begin_scope(P1), "LeftParen",
                      "Expected '(' after function name."))

\* fun_declaration from mark_initialized on, r being the result of
\* parse_variable
Parser_fun_declaration_define(r) ==
  Parser_define_variable(
    Parser_function(Parser_mark_initialized(r.P), "Function"), r.var)

Parser_fun_declaration(P) ==
  Parser_fun_declaration_define(
    Parser_parse_variable(Parser_advance(P),
                          "Expected function name after fun."))

Parser_statement(P) ==
  CASE P.current.token_type = "Print" -> Parser_print_statement(P)
    [] P.current.token_type = "If" -> Parser_if_statement(P)
    [] P.current.token_type = "Return" -> Parser_return_statement(P)
    [] P.current.token_type = "While" -> Parser_while_statement(P)
    [] P.current.token_type = "For" -> Parser_for_statement(P)
    [] P.current.token_type = "LeftBrace" -> Parser_block(P)
    [] OTHER -> Parser_expression_statement(P)

\* the end of declaration(): if self.panic { self.synchronize() }
Parser_declaration_end(P) == IF P.panic THEN Parser_synchronize(P) ELSE P

\* Q is what a call of declaration() has made of P: the token the call was
\* made at and the number of lexer items it has pulled are kept
Parser_declared(P, Q) ==
  [Q EXCEPT !.declared = @ \cup {[at |-> P.current.token_type,
                                  pulled |-> Q.pulled - P.pulled]}]

Parser_declaration(P) ==
  Parser_declared(P,
    Parser_declaration_end(
      CASE P.current.token_type = "Fun" -> Parser_fun_declaration(P)
        [] P.current.token_type = "Var" -> Parser_var_declaration(P)
        [] OTHER -> Parser_statement(P)))

Parser_end_parse(P) == Parser_emit_ops(P, OP_NIL, OP_RETURN)

\* while !match_token(Eof) { declaration() }
RECURSIVE Parser_parse_loop(_)
Parser_parse_loop(P) ==
  IF Parser_check_type(P, "Eof") THEN Parser_advance(P)
  ELSE Parser_parse_loop(Parser_declaration(P))

\* the end of parse(): frames.remove(0) and Ok(function), whatever had_error
\* is; what the parser has reported and whether it has panicked go along
Parser_parse_end(P) ==
  [ok |-> TRUE, function |-> P.frames[1].function,
   had_error |-> P.had_error, reported |-> P.reported,
   crashed |-> P.crashed, frames |-> Len(P.frames),
   patched |-> P.patched, looped |-> P.looped]

Parser_parse(P) ==
  Parser_parse_end(Parser_end_parse(Parser_parse_loop(Parser_advance(P))))

\* compile(): anything but Ok(function) makes interpret return CompileError
compile(source) == Parser_parse(Parser_new(source))

(***************************************************************************)
(* Texts the VM writes (vm.rs, value.rs), as character sequences           *)
(***************************************************************************)
\* "true"
TXT_true ==
  <<"t", "r", "u", "e">>

\* "false"
TXT_false ==
  <<"f", "a", "l", "s", "e">>

\* "nil"
TXT_nil ==
  <<"n", "i", "l">>

\* "<fn "
TXT_fn_open ==
  <<"<", "f", "n", " ">>

\* "<native fn "
TXT_native_open ==
  <<"<", "n", "a", "t", "i", "v", "e", " ", "f", "n", " ">>

\* "hello"
TXT_hello ==
  <<"h", "e", "l", "l", "o">>

\* "Hello, world!"
TXT_hello_world ==
  <<"H", "e", "l", "l", "o", ",", " ", "w", "o", "r", "l", "d", "!">>

\* "Invalid access to stack."
MSG_stack ==
  <<"I", "n", "v", "a", "l", "i", "d", " ", "a", "c", "c", "e", "s", "s",
    " ", "t", "o", " ", "s", "t", "a", "c", "k", ".">>

\* "Invalid access to stack"
MSG_stack_nodot ==
  <<"I", "n", "v", "a", "l", "i", "d", " ", "a", "c", "c", "e", "s", "s",
    " ", "t", "o", " ", "s", "t", "a", "c", "k">>

\* "Operand must be a number."
MSG_operand_number ==
  <<"O", "p", "e", "r", "a", "n", "d", " ", "m", "u", "s", "t", " ", "b",
    "e", " ", "a", " ", "n", "u", "m", "b", "e", "r", ".">>

\* "Operands must be numbers."
MSG_operands_numbers ==
  <<"O", "p", "e", "r", "a", "n", "d", "s", " ", "m", "u", "s", "t", " ",
    "b", "e", " ", "n", "u", "m", "b", "e", "r", "s", ".">>

\* "Operands must be two numbers or two strings."
MSG_operands_add ==
  <<"O", "p", "e", "r", "a", "n", "d", "s", " ", "m", "u", "s", "t", " ",
    "b", "e", " ", "t", "w", "o", " ", "n", "u", "m", "b", "e", "r", "s",
    " ", "o", "r", " ", "t", "w", "o", " ", "s", "t", "r", "i", "n", "g",
    "s", ".">>

\* "Invalid name for identifier."
MSG_invalid_name ==
  <<"I", "n", "v", "a", "l", "i", "d", " ", "n", "a", "m", "e", " ", "f",
    "o", "r", " ", "i", "d", "e", "n", "t", "i", "f", "i", "e", "r", ".">>

\* "Global Variable "
MSG_global_prefix ==
  <<"G", "l", "o", "b", "a", "l", " ", "V", "a", "r", "i", "a", "b", "l",
    "e", " ">>

\* " not found"
MSG_global_suffix ==
  <<" ", "n", "o", "t", " ", "f", "o", "u", "n", "d">>

\* "Undefined variable "
MSG_undefined_prefix ==
  <<"U", "n", "d", "e", "f", "i", "n", "e", "d", " ", "v", "a", "r", "i",
    "a", "b", "l", "e", " ">>

\* "Cannot get slot for local variable."
MSG_no_slot ==
  <<"C", "a", "n", "n", "o", "t", " ", "g", "e", "t", " ", "s", "l", "o",
    "t", " ", "f", "o", "r", " ", "l", "o", "c", "a", "l", " ", "v", "a",
    "r", "i", "a", "b", "l", "e", ".">>

\* "Invalid predicate."
MSG_predicate ==
  <<"I", "n", "v", "a", "l", "i", "d", " ", "p", "r", "e", "d", "i", "c",
    "a", "t", "e", ".">>

\* "Can only call functions and classes."
MSG_not_callable ==
  <<"C", "a", "n", " ", "o", "n", "l", "y", " ", "c", "a", "l", "l", " ",
    "f", "u", "n", "c", "t", "i", "o", "n", "s", " ", "a", "n", "d", " ",
    "c", "l", "a", "s", "s", "e", "s", ".">>

\* "Expected "
MSG_expected ==
  <<"E", "x", "p", "e", "c", "t", "e", "d", " ">>

\* " arguments but got "
MSG_arguments_but_got ==
  <<" ", "a", "r", "g", "u", "m", "e", "n", "t", "s", " ", "b", "u", "t",
    " ", "g", "o", "t", " ">>

\* "Stack overflow."
MSG_overflow ==
  <<"S", "t", "a", "c", "k", " ", "o", "v", "e", "r", "f", "l", "o", "w",
    ".">>

\* "script"
TXT_script ==
  <<"s", "c", "r", "i", "p", "t">>

(***************************************************************************)
(* f64 arithmetic on the rational representation.  den = 0 encodes the     *)
(* non-finite values: num > 0 is inf, num < 0 is -inf, num = 0 is NaN.      *)
(***************************************************************************)
NaN == Number(0, 0)

Sign(n) == IF n > 0 THEN 1 ELSE IF n < 0 THEN -1 ELSE 0

F64(num, den) == IF den = 0 THEN Number(Sign(num), 0) ELSE Rational(num, den)

F64_add(a, b) ==
  IF a.den = 0 /\ b.den = 0
    THEN (IF a.num = b.num THEN a ELSE NaN)
  ELSE IF a.den = 0 THEN a
  ELSE IF b.den = 0 THEN b
  ELSE Rational(a.num * b.den + b.num * a.den, a.den * b.den)

F64_neg(a) == Number(-a.num, a.den)

F64_sub(a, b) == F64_add(a, F64_neg(b))

F64_mul(a, b) == F64(a.num * b.num, a.den * b.den)

F64_div(a, b) ==
  LET n == a.num * b.den
      d == a.den * b.num
  IN IF d = 0 THEN Number(Sign(n) * (IF b.num < 0 THEN -1 ELSE 1), 0)
     ELSE Rational(n, d)

F64_is_nan(a) == a.den = 0 /\ a.num = 0

F64_lt(a, b) ==
  /\ ~F64_is_nan(a) /\ ~F64_is_nan(b)
  /\ IF a.den = 0 /\ b.den = 0 THEN a.num < b.num
     ELSE a.num * b.den < b.num * a.den

F64_eq(a, b) == ~F64_is_nan(a) /\ ~F64_is_nan(b) /\ a = b

(***************************************************************************)
(* Display (value.rs, impl fmt::Display).  Texts are character sequences.  *)
(***************************************************************************)
DigitChar(d) ==
  CASE d = 0 -> "0" [] d = 1 -> "1" [] d = 2 -> "2" [] d = 3 -> "3"
    [] d = 4 -> "4" [] d = 5 -> "5" [] d = 6 -> "6" [] d = 7 -> "7"
    [] d = 8 -> "8" [] d = 9 -> "9"

RECURSIVE NatToChars(_)
NatToChars(n) ==
  IF n < 10 THEN <<DigitChar(n)>>
  ELSE NatToChars(n \div 10) \o <<DigitChar(n % 10)>>

\* the fractional digits of rem/den, at most k of them (f64 prints the
\* shortest text that round-trips, which has at most 17 significant digits)
RECURSIVE FracToChars(_, _, _)
FracToChars(rem, den, k) ==
  IF rem = 0 \/ k = 0 THEN <<>>
  ELSE <<DigitChar((rem * 10) \div den)>>
       \o FracToChars((rem * 10) % den, den, k - 1)

F64_display(a) ==
  IF a.den = 0
    THEN (IF a.num > 0 THEN <<"i", "n", "f">>
          ELSE IF a.num < 0 THEN <<"-", "i", "n", "f">>
          ELSE <<"N", "a", "N">>)
  ELSE (IF a.num < 0 THEN <<"-">> ELSE <<>>)
       \o NatToChars(Abs(a.num) \div a.den)
       \o (IF Abs(a.num) % a.den = 0 THEN <<>>
           ELSE <<".">> \o FracToChars(Abs(a.num) % a.den, a.den, 17))

Value_display(v) ==
  CASE v.tag = "Bool" ->
         (IF v.value THEN TXT_true ELSE TXT_false)
    [] v.tag = "Number" -> F64_display(v)
    [] v.tag = "Nil" -> TXT_nil
    [] v.tag = "String" -> v.value
    [] v.tag = "Function" ->
         (IF v.value.name = NoName THEN NoName
          ELSE TXT_fn_open \o v.value.name \o <<">">>)
    [] v.tag = "NativeFn" -> TXT_native_open \o v.name \o <<">">>

Value_is_falsy(v) ==
  CASE v.tag = "Bool" -> ~v.value
    [] v.tag = "Nil" -> TRUE
    [] OTHER -> FALSE

\* Value::eq has arms for Bool, Number, Nil and String only
Value_eq(a, b) ==
  CASE a.tag = "Bool" /\ b.tag = "Bool" -> a.value = b.value
    [] a.tag = "Number" /\ b.tag = "Number" -> F64_eq(a, b)
    [] a.tag = "Nil" /\ b.tag = "Nil" -> TRUE
    [] a.tag = "String" /\ b.tag = "String" -> a.value = b.value
    [] OTHER -> FALSE

(***************************************************************************)
(* The VM (vm.rs).  A machine record M holds the fields of struct VM, the  *)
(* two output streams, and status: "run" while VM::run keeps looping,      *)
(* otherwise what ends the run ("Ok", "CompileError", "RuntimeError", or   *)
(* "Panic" when the Rust code panics and the process aborts).              *)
(***************************************************************************)
MAX_FRAMES == 255

CallFrame_new(function, cursor, slot_base) ==
  [function |-> function, cursor |-> cursor, slot_base |-> slot_base]

VM_current_frame(M) == M.frames[Len(M.frames)]

VM_current_cursor(M) == VM_current_frame(M).cursor

VM_current_chunk(M) == VM_current_frame(M).function.chunk

VM_current_instructions(M) == VM_current_chunk(M).instructions

VM_current_slot_base(M) == VM_current_frame(M).slot_base

VM_push_value(M, value) == [M EXCEPT !.stack = Append(@, value)]

\* Vec::pop on an empty stack is None and leaves it empty
VM_pop_value(M) ==
  IF M.stack = <<>> THEN M
  ELSE [M EXCEPT !.stack = SubSeq(@, 1, Len(@) - 1)]

VM_has_value_at(M, at) == at < Len(M.stack)

VM_peek_value_at(M, at) == M.stack[Len(M.stack) - at]

VM_advance_cursor(M, by) == [M EXCEPT !.frames[Len(M.frames)].cursor = @ + by]

VM_panic(M) == [M EXCEPT !.status = "Panic"]

\* one line of the stack trace runtime_error prints per frame
TraceLine(frame) ==
  [line |-> frame.function.chunk.loc[frame.cursor].line,
   name |-> IF frame.function.name = NoName THEN TXT_script
            ELSE frame.function.name]

\* runtime_error indexes loc[cursor] of the current chunk and loc[cursor - 1]
\* of every frame; an index out of range panics
VM_runtime_error(M, message) ==
  IF VM_current_cursor(M) >= Len(VM_current_chunk(M).loc) THEN VM_panic(M)
  ELSE IF \E i \in 1..Len(M.frames) :
            \/ M.frames[i].cursor = 0
            \/ M.frames[i].cursor > Len(M.frames[i].function.chunk.loc)
    THEN VM_panic(M)
  ELSE LET loc == VM_current_chunk(M).loc[VM_current_cursor(M) + 1] IN
       [M EXCEPT !.status = "RuntimeError",
                 !.stderr = Append(@, [line |-> loc.line, col |-> loc.col,
                                       message |-> message,
                                       trace |-> [i \in 1..Len(M.frames) |->
                                                    TraceLine(M.frames[i])]])]

\* instructions[cursor] with the bounds check of Vec indexing
VM_operand_in_range(M) ==
  VM_current_cursor(M) < Len(VM_current_instructions(M))

VM_current_instruction(M) ==
  VM_current_instructions(M)[VM_current_cursor(M) + 1]

OpCode_from_usize(num) == IF num \in 0..24 THEN num ELSE 25

\* VM::next_opcode: the opcode under the cursor, and the cursor moved past it
VM_next_opcode(M) == VM_advance_cursor(M, 1)

\* VM::read_constant after VM::next; the constant index must be in range
VM_constant_in_range(M) ==
  /\ VM_operand_in_range(M)
  /\ VM_current_instruction(M) < Len(VM_current_chunk(M).constants)

VM_read_constant(M) ==
  VM_current_chunk(M).constants[VM_current_instruction(M) + 1]

VM_constant(M) ==
  IF ~VM_constant_in_range(M) THEN VM_panic(M)
  ELSE VM_push_value(VM_advance_cursor(M, 1), VM_read_constant(M))

VM_negate(M) ==
  IF M.stack = <<>> THEN VM_runtime_error(M, MSG_stack_nodot)
  ELSE LET popped_value == VM_peek_value_at(M, 0)
           M1 == VM_pop_value(M)
       IN IF popped_value.tag = "Number"
            THEN VM_push_value(M1, F64_neg(popped_value))
            ELSE VM_runtime_error(M1, MSG_operand_number)

VM_not(M) ==
  IF M.stack = <<>> THEN VM_runtime_error(M, MSG_stack_nodot)
  ELSE VM_push_value(VM_pop_value(M),
                     Bool(Value_is_falsy(VM_peek_value_at(M, 0))))

\* binary_number_op! / binary_bool_op! (lib.rs): both pops happen before
\* the test; result is the value to push for two numbers
VM_binary_op(M, result(_, _)) ==
  LET M2 == VM_pop_value(VM_pop_value(M)) IN
  IF ~VM_has_value_at(M, 1) THEN VM_runtime_error(M2, MSG_stack)
  ELSE LET b == VM_peek_value_at(M, 0)
           a == VM_peek_value_at(M, 1)
       IN IF a.tag = "Number" /\ b.tag = "Number"
            THEN VM_push_value(M2, result(a, b))
            ELSE VM_runtime_error(M2, MSG_operands_numbers)

VM_add(M) ==
  IF ~VM_has_value_at(M, 1) THEN VM_runtime_error(M, MSG_stack)
  ELSE LET b == VM_peek_value_at(M, 0)
           a == VM_peek_value_at(M, 1)
       IN IF a.tag = "Number" /\ b.tag = "Number"
            THEN VM_binary_op(M, F64_add)
          ELSE IF a.tag = "String" /\ b.tag = "String"
            THEN VM_push_value(VM_pop_value(VM_pop_value(M)),
                               String(a.value \o b.value))
          ELSE VM_runtime_error(M, MSG_operands_add)

VM_subtract(M) == VM_binary_op(M, F64_sub)

VM_multiply(M) == VM_binary_op(M, F64_mul)

VM_divide(M) == VM_binary_op(M, F64_div)

VM_equal(M) ==
  LET M2 == VM_pop_value(VM_pop_value(M)) IN
  IF ~VM_has_value_at(M, 1) THEN VM_runtime_error(M2, MSG_stack_nodot)
  ELSE VM_push_value(M2, Bool(Value_eq(VM_peek_value_at(M, 1),
                                       VM_peek_value_at(M, 0))))

BoolGreater(a, b) == Bool(F64_lt(b, a))

BoolLess(a, b) == Bool(F64_lt(a, b))

VM_greater(M) == VM_binary_op(M, BoolGreater)

VM_less(M) == VM_binary_op(M, BoolLess)

VM_print(M) ==
  IF M.stack = <<>> THEN VM_runtime_error(M, MSG_stack)
  ELSE [VM_pop_value(M) EXCEPT
          !.stdout = Append(@, Value_display(VM_peek_value_at(M, 0)))]

VM_pop(M) ==
  IF M.stack = <<>> THEN VM_runtime_error(M, MSG_stack) ELSE VM_pop_value(M)

\* HashMap::insert
Globals_insert(globals, name, value) ==
  [n \in DOMAIN globals \cup {name} |->
     IF n = name THEN value ELSE globals[n]]

VM_define_global(M) ==
  IF ~VM_constant_in_range(M) THEN VM_panic(M)
  ELSE LET name == VM_read_constant(M)
           M1 == VM_advance_cursor(M, 1)
       IN IF name.tag # "String" THEN VM_runtime_error(M1, MSG_invalid_name)
          ELSE IF M1.stack = <<>> THEN VM_runtime_error(M1, MSG_stack)
          ELSE VM_pop_value(
                 [M1 EXCEPT !.globals =
                    Globals_insert(@, name.value, VM_peek_value_at(M1, 0))])

\* the diagnostic of a GET_GLOBAL on an unbound name
GetGlobalMessage(name) == MSG_global_prefix \o name \o MSG_global_suffix

VM_get_global(M) ==
  IF ~VM_constant_in_range(M) THEN VM_panic(M)
  ELSE LET name_value == VM_read_constant(M)
           M1 == VM_advance_cursor(M, 1)
       IN IF name_value.tag # "String"
            THEN VM_runtime_error(M1, MSG_invalid_name)
          ELSE IF name_value.value \notin DOMAIN M1.globals
            THEN VM_runtime_error(M1, GetGlobalMessage(name_value.value))
          ELSE VM_push_value(M1, M1.globals[name_value.value])

\* the diagnostic of a SET_GLOBAL on an unbound name
SetGlobalMessage(name) == MSG_undefined_prefix \o name \o <<".">>

\* VM_set_global with HashMap::insert in place of the contains_key test
VM_set_global_inserting(M) ==
  IF ~VM_constant_in_range(M) THEN VM_panic(M)
  ELSE LET name_value == VM_read_constant(M)
           M1 == VM_advance_cursor(M, 1)
       IN IF name_value.tag # "String"
            THEN VM_runtime_error(M1, MSG_invalid_name)
          ELSE IF M1.stack = <<>> THEN VM_runtime_error(M1, MSG_stack)
          ELSE [M1 EXCEPT !.globals =
                  Globals_insert(@, name_value.value, VM_peek_value_at(M1, 0))]

VM_set_global(M) ==
  IF ~VM_constant_in_range(M) THEN VM_panic(M)
  ELSE LET name_value == VM_read_constant(M)
           M1 == VM_advance_cursor(M, 1)
       IN IF name_value.tag # "String"
            THEN VM_runtime_error(M1, MSG_invalid_name)
          ELSE IF M1.stack = <<>> THEN VM_runtime_error(M1, MSG_stack)
          ELSE IF name_value.value \notin DOMAIN M1.globals
            THEN VM_runtime_error(M1, SetGlobalMessage(name_value.value))
          ELSE [M1 EXCEPT !.globals[name_value.value] =
                            VM_peek_value_at(M1, 0)]

VM_get_local(M) ==
  IF ~VM_operand_in_range(M) THEN VM_panic(M)
  ELSE LET slot == VM_current_instruction(M)
           M1 == VM_advance_cursor(M, 1)
           index == VM_current_slot_base(M1) + slot
       IN IF index >= Len(M1.stack) THEN VM_runtime_error(M1, MSG_stack)
          ELSE VM_push_value(M1, M1.stack[index + 1])

VM_set_local(M) ==
  IF ~VM_operand_in_range(M) THEN VM_panic(M)
  ELSE LET slot == VM_current_instruction(M)
           M1 == VM_advance_cursor(M, 1)
           index == VM_current_slot_base(M1) + slot
       IN IF M1.stack = <<>> THEN VM_runtime_error(M1, MSG_stack)
          ELSE IF index >= Len(M1.stack) THEN VM_runtime_error(M1, MSG_stack)
          ELSE [M1 EXCEPT !.stack[index + 1] = VM_peek_value_at(M1, 0)]

\* VM_jump_if_false with the test the wrong way round
VM_jump_if_truthy(M) ==
  IF ~VM_operand_in_range(M) THEN VM_panic(M)
  ELSE LET offset == VM_current_instruction(M)
           M1 == VM_advance_cursor(M, 1)
       IN IF M1.stack = <<>> THEN VM_runtime_error(M1, MSG_predicate)
          ELSE IF ~Value_is_falsy(VM_peek_value_at(M1, 0))
            THEN VM_advance_cursor(M1, offset)
          ELSE M1

VM_jump_if_false(M) ==
  IF ~VM_operand_in_range(M) THEN VM_panic(M)
  ELSE LET offset == VM_current_instruction(M)
           M1 == VM_advance_cursor(M, 1)
       IN IF M1.stack = <<>> THEN VM_runtime_error(M1, MSG_predicate)
          ELSE IF Value_is_falsy(VM_peek_value_at(M1, 0))
            THEN VM_advance_cursor(M1, offset)
          ELSE M1

VM_jump(M) ==
  IF ~VM_operand_in_range(M) THEN VM_panic(M)
  ELSE VM_advance_cursor(M, VM_current_instruction(M) + 1)

\* cursor -= offset on a usize: a negative result panics
VM_loop_op(M) ==
  IF ~VM_operand_in_range(M) THEN VM_panic(M)
  ELSE IF VM_current_instruction(M) > VM_current_cursor(M) THEN VM_panic(M)
  ELSE VM_advance_cursor(M, -VM_current_instruction(M))

ArityMessage(arity, arg_count) ==
  MSG_expected \o NatToChars(arity) \o MSG_arguments_but_got
  \o NatToChars(arg_count) \o <<".">>

\* VM_call without the test of the argument count
VM_call_any_count(M, function, arg_count) ==
  IF Len(M.frames) = MAX_FRAMES THEN VM_runtime_error(M, MSG_overflow)
  ELSE IF Len(M.stack) < arg_count + 1 THEN VM_runtime_error(M, MSG_stack)
  ELSE [M EXCEPT !.frames =
          Append(@, CallFrame_new(function, 0,
                                  Len(M.stack) - arg_count - 1))]

\* VM_call without the test of the frame count
VM_call_any_depth(M, function, arg_count) ==
  IF function.arity # arg_count
    THEN VM_runtime_error(M, ArityMessage(function.arity, arg_count))
  ELSE IF Len(M.stack) < arg_count + 1 THEN VM_runtime_error(M, MSG_stack)
  ELSE [M EXCEPT !.frames =
          Append(@, CallFrame_new(function, 0,
                                  Len(M.stack) - arg_count - 1))]

\* VM_call with the slot base on the first argument, not on the callee
VM_call_base_on_argument(M, function, arg_count) ==
  IF function.arity # arg_count
    THEN VM_runtime_error(M, ArityMessage(function.arity, arg_count))
  ELSE IF Len(M.frames) = MAX_FRAMES THEN VM_runtime_error(M, MSG_overflow)
  ELSE IF Len(M.stack) < arg_count + 1 THEN VM_runtime_error(M, MSG_stack)
  ELSE [M EXCEPT !.frames =
          Append(@, CallFrame_new(function, 0, Len(M.stack) - arg_count))]

\* runtime_error for its side effect only: `_ = self.runtime_error(..)`
VM_call(M, function, arg_count) ==
  IF function.arity # arg_count
    THEN VM_runtime_error(M, ArityMessage(function.arity, arg_count))
  ELSE IF Len(M.frames) = MAX_FRAMES THEN VM_runtime_error(M, MSG_overflow)
  ELSE IF Len(M.stack) < arg_count + 1 THEN VM_runtime_error(M, MSG_stack)
  ELSE [M EXCEPT !.frames =
          Append(@, CallFrame_new(function, 0,
                                  Len(M.stack) - arg_count - 1))]

\* the only native function is "hello", which ignores its arguments
NativeFn_call(name, arg_count, args) == String(TXT_hello_world)

VM_call_value(M, value, arg_count) ==
  CASE value.tag = "Function" -> VM_call(M, value.value, arg_count)
    [] value.tag = "NativeFn" ->
         IF Len(M.stack) < arg_count + 1 THEN VM_runtime_error(M, MSG_stack)
         ELSE LET args == SubSeq(M.stack, Len(M.stack) - arg_count + 1,
                                 Len(M.stack))
                  result == NativeFn_call(value.name, arg_count, args)
              IN VM_push_value(
                   [M EXCEPT !.stack = SubSeq(@, 1, Len(@) - arg_count - 1)],
                   result)
    [] OTHER -> VM_runtime_error(M, MSG_not_callable)

\* peek_value_at(arg_count).expect(..) panics when the stack is too short
VM_call_op(M) ==
  IF ~VM_operand_in_range(M) THEN VM_panic(M)
  ELSE LET arg_count == VM_current_instruction(M)
           M1 == VM_advance_cursor(M, 1)
       IN IF ~VM_has_value_at(M1, arg_count) THEN VM_panic(M1)
          ELSE VM_call_value(M1, VM_peek_value_at(M1, arg_count), arg_count)

\* return_op: Ok(true) is status "Ok"
VM_return_op(M) ==
  IF M.stack = <<>> THEN VM_runtime_error(M, MSG_stack)
  ELSE LET result == VM_peek_value_at(M, 0)
           M1 == VM_pop_value(M)
           frame == VM_current_frame(M1)
           M2 == [M1 EXCEPT !.frames = SubSeq(@, 1, Len(@) - 1)]
       IN IF M2.frames = <<>>
            THEN [M2 EXCEPT !.stack = <<>>, !.status = "Ok"]
            ELSE VM_push_value(
                   [M2 EXCEPT !.stack =
                      SubSeq(@, 1, Min(frame.slot_base, Len(@)))],
                   result)

\* define_native("hello", ..): two pushes, the insert, two pops
VM_define_native(M, name) ==
  LET M1 == VM_push_value(VM_push_value(M, String(name)), NativeFnValue(name))
      M2 == [M1 EXCEPT !.globals = Globals_insert(@, name, NativeFnValue(name))]
  IN VM_pop_value(VM_pop_value(M2))

VM_populate_native_fn(M) == VM_define_native(M, TXT_hello)

\* the test at the bottom of the loop in VM::run
VM_loop_end(M) ==
  IF M.status = "run"
     /\ VM_current_cursor(M) = Len(VM_current_instructions(M))
    THEN [M EXCEPT !.status = "Ok"]
    ELSE M

(***************************************************************************)
(* The source texts the machine is run on                                  *)
(***************************************************************************)
\* print 1 + 2 * 3;
SRC_arith ==
  <<"p", "r", "i", "n", "t", " ", "1", " ", "+", " ", "2", " ", "*", " ",
    "3", ";">>

\* var a = "hi"; var b = "!"; print a + b;
SRC_concat ==
  <<"v", "a", "r", " ", "a", " ", "=", " ", "\"", "h", "i", "\"", ";", " ",
    "v", "a", "r", " ", "b", " ", "=", " ", "\"", "!", "\"", ";", " ", "p",
    "r", "i", "n", "t", " ", "a", " ", "+", " ", "b", ";">>

\* var x = 1; { var x = 2; print x; } print x;
SRC_shadow ==
  <<"v", "a", "r", " ", "x", " ", "=", " ", "1", ";", " ", "{", " ", "v",
    "a", "r", " ", "x", " ", "=", " ", "2", ";", " ", "p", "r", "i", "n",
    "t", " ", "x", ";", " ", "}", " ", "p", "r", "i", "n", "t", " ", "x", ";">>

\* fun fib(n) { if (n < 2) return n; return fib(n-1) + fib(n-2); } print fib(10);
SRC_fib ==
  <<"f", "u", "n", " ", "f", "i", "b", "(", "n", ")", " ", "{", " ", "i",
    "f", " ", "(", "n", " ", "<", " ", "2", ")", " ", "r", "e", "t", "u",
    "r", "n", " ", "n", ";", " ", "r", "e", "t", "u", "r", "n", " ", "f",
    "i", "b", "(", "n", "-", "1", ")", " ", "+", " ", "f", "i", "b", "(",
    "n", "-", "2", ")", ";", " ", "}", " ", "p", "r", "i", "n", "t", " ",
    "f", "i", "b", "(", "1", "0", ")", ";">>

\* var i = 0; while (i < 3) { print i; i = i + 1; }
SRC_while ==
  <<"v", "a", "r", " ", "i", " ", "=", " ", "0", ";", " ", "w", "h", "i",
    "l", "e", " ", "(", "i", " ", "<", " ", "3", ")", " ", "{", " ", "p",
    "r", "i", "n", "t", " ", "i", ";", " ", "i", " ", "=", " ", "i", " ",
    "+", " ", "1", ";", " ", "}">>

\* print foo;
SRC_undefined ==
  <<"p", "r", "i", "n", "t", " ", "f", "o", "o", ";">>

\* fun f(a,b){return a+b;} print f(1);
SRC_arity ==
  <<"f", "u", "n", " ", "f", "(", "a", ",", "b", ")", "{", "r", "e", "t",
    "u", "r", "n", " ", "a", "+", "b", ";", "}", " ", "p", "r", "i", "n",
    "t", " ", "f", "(", "1", ")", ";">>

\* { var a = a; }
SRC_self_init ==
  <<"{", " ", "v", "a", "r", " ", "a", " ", "=", " ", "a", ";", " ", "}">>

\* print 1
SRC_no_semi ==
  <<"p", "r", "i", "n", "t", " ", "1">>

\* var g = 5; print 2 +; g = 6;
SRC_bad_expr ==
  <<"v", "a", "r", " ", "g", " ", "=", " ", "5", ";", " ", "p", "r", "i",
    "n", "t", " ", "2", " ", "+", ";", " ", "g", " ", "=", " ", "6", ";">>

\* fun f(n) { return n; } print f(7);
SRC_param1 ==
  <<"f", "u", "n", " ", "f", "(", "n", ")", " ", "{", " ", "r", "e", "t",
    "u", "r", "n", " ", "n", ";", " ", "}", " ", "p", "r", "i", "n", "t",
    " ", "f", "(", "7", ")", ";">>

\* fun f(a, b) { return b; } print f(1, 2);
SRC_param2 ==
  <<"f", "u", "n", " ", "f", "(", "a", ",", " ", "b", ")", " ", "{", " ",
    "r", "e", "t", "u", "r", "n", " ", "b", ";", " ", "}", " ", "p", "r",
    "i", "n", "t", " ", "f", "(", "1", ",", " ", "2", ")", ";">>

\* fun f(a, b, c) { return a; } print f(1, 2, 3);
SRC_param3 ==
  <<"f", "u", "n", " ", "f", "(", "a", ",", " ", "b", ",", " ", "c", ")",
    " ", "{", " ", "r", "e", "t", "u", "r", "n", " ", "a", ";", " ", "}",
    " ", "p", "r", "i", "n", "t", " ", "f", "(", "1", ",", " ", "2", ",",
    " ", "3", ")", ";">>

\* fun f() {} print f();
SRC_no_return ==
  <<"f", "u", "n", " ", "f", "(", ")", " ", "{", "}", " ", "p", "r", "i",
    "n", "t", " ", "f", "(", ")", ";">>

\* fun g(a) { print 5; } print g(1);
SRC_no_return_arg ==
  <<"f", "u", "n", " ", "g", "(", "a", ")", " ", "{", " ", "p", "r", "i",
    "n", "t", " ", "5", ";", " ", "}", " ", "p", "r", "i", "n", "t", " ",
    "g", "(", "1", ")", ";">>

\* fun f() { return 1; } fun g() { return f() + 1; } print g();
SRC_call_const ==
  <<"f", "u", "n", " ", "f", "(", ")", " ", "{", " ", "r", "e", "t", "u",
    "r", "n", " ", "1", ";", " ", "}", " ", "f", "u", "n", " ", "g", "(",
    ")", " ", "{", " ", "r", "e", "t", "u", "r", "n", " ", "f", "(", ")",
    " ", "+", " ", "1", ";", " ", "}", " ", "p", "r", "i", "n", "t", " ",
    "g", "(", ")", ";">>

\* fun f() { return f(); } f();
SRC_recurse ==
  <<"f", "u", "n", " ", "f", "(", ")", " ", "{", " ", "r", "e", "t", "u",
    "r", "n", " ", "f", "(", ")", ";", " ", "}", " ", "f", "(", ")", ";">>

\* { var a = 1; var b = 2; print a; print b; }
SRC_locals2 ==
  <<"{", " ", "v", "a", "r", " ", "a", " ", "=", " ", "1", ";", " ", "v",
    "a", "r", " ", "b", " ", "=", " ", "2", ";", " ", "p", "r", "i", "n",
    "t", " ", "a", ";", " ", "p", "r", "i", "n", "t", " ", "b", ";", " ", "}">>

\* { var a = 1; a = a + 1; print a; }
SRC_local1 ==
  <<"{", " ", "v", "a", "r", " ", "a", " ", "=", " ", "1", ";", " ", "a",
    " ", "=", " ", "a", " ", "+", " ", "1", ";", " ", "p", "r", "i", "n",
    "t", " ", "a", ";", " ", "}">>

\* { var a = 1; var b = 2; a = 3; print a; print b; }
SRC_locals_set ==
  <<"{", " ", "v", "a", "r", " ", "a", " ", "=", " ", "1", ";", " ", "v",
    "a", "r", " ", "b", " ", "=", " ", "2", ";", " ", "a", " ", "=", " ",
    "3", ";", " ", "p", "r", "i", "n", "t", " ", "a", ";", " ", "p", "r",
    "i", "n", "t", " ", "b", ";", " ", "}">>

\* print true and false;
SRC_and_tf ==
  <<"p", "r", "i", "n", "t", " ", "t", "r", "u", "e", " ", "a", "n", "d",
    " ", "f", "a", "l", "s", "e", ";">>

\* print nil and 1;
SRC_and_nil ==
  <<"p", "r", "i", "n", "t", " ", "n", "i", "l", " ", "a", "n", "d", " ",
    "1", ";">>

\* print false or 7;
SRC_or_false ==
  <<"p", "r", "i", "n", "t", " ", "f", "a", "l", "s", "e", " ", "o", "r",
    " ", "7", ";">>

\* print 1 or 2;
SRC_or_true ==
  <<"p", "r", "i", "n", "t", " ", "1", " ", "o", "r", " ", "2", ";">>

\* for (var i = 0; i < 0; i = i + 1) print i;
SRC_for_false ==
  <<"f", "o", "r", " ", "(", "v", "a", "r", " ", "i", " ", "=", " ", "0",
    ";", " ", "i", " ", "<", " ", "0", ";", " ", "i", " ", "=", " ", "i",
    " ", "+", " ", "1", ")", " ", "p", "r", "i", "n", "t", " ", "i", ";">>

\* for (var i = 0; i < 2; i = i + 1) print i;
SRC_for_two ==
  <<"f", "o", "r", " ", "(", "v", "a", "r", " ", "i", " ", "=", " ", "0",
    ";", " ", "i", " ", "<", " ", "2", ";", " ", "i", " ", "=", " ", "i",
    " ", "+", " ", "1", ")", " ", "p", "r", "i", "n", "t", " ", "i", ";">>

\* while (false) print 1; print 2;
SRC_while_false ==
  <<"w", "h", "i", "l", "e", " ", "(", "f", "a", "l", "s", "e", ")", " ",
    "p", "r", "i", "n", "t", " ", "1", ";", " ", "p", "r", "i", "n", "t",
    " ", "2", ";">>

\* { var i = 0; while (i < 2) { print i; i = i + 1; } }
SRC_while_local ==
  <<"{", " ", "v", "a", "r", " ", "i", " ", "=", " ", "0", ";", " ", "w",
    "h", "i", "l", "e", " ", "(", "i", " ", "<", " ", "2", ")", " ", "{",
    " ", "p", "r", "i", "n", "t", " ", "i", ";", " ", "i", " ", "=", " ",
    "i", " ", "+", " ", "1", ";", " ", "}", " ", "}">>

\* var i = 0; while (i < 2) { var j = 0; while (j < 2) j = j + 1; i = i + j; } print i;
SRC_while_nested ==
  <<"v", "a", "r", " ", "i", " ", "=", " ", "0", ";", " ", "w", "h", "i",
    "l", "e", " ", "(", "i", " ", "<", " ", "2", ")", " ", "{", " ", "v",
    "a", "r", " ", "j", " ", "=", " ", "0", ";", " ", "w", "h", "i", "l",
    "e", " ", "(", "j", " ", "<", " ", "2", ")", " ", "j", " ", "=", " ",
    "j", " ", "+", " ", "1", ";", " ", "i", " ", "=", " ", "i", " ", "+",
    " ", "j", ";", " ", "}", " ", "p", "r", "i", "n", "t", " ", "i", ";">>

\* x = 1; print 2;
SRC_set_undefined ==
  <<"x", " ", "=", " ", "1", ";", " ", "p", "r", "i", "n", "t", " ", "2", ";">>

\* var x = 1; print x = 2; print x;
SRC_set_defined ==
  <<"v", "a", "r", " ", "x", " ", "=", " ", "1", ";", " ", "p", "r", "i",
    "n", "t", " ", "x", " ", "=", " ", "2", ";", " ", "p", "r", "i", "n",
    "t", " ", "x", ";">>

\* var x = 4; fun f() { return x; } print f();
SRC_get_in_fun ==
  <<"v", "a", "r", " ", "x", " ", "=", " ", "4", ";", " ", "f", "u", "n",
    " ", "f", "(", ")", " ", "{", " ", "r", "e", "t", "u", "r", "n", " ",
    "x", ";", " ", "}", " ", "p", "r", "i", "n", "t", " ", "f", "(", ")", ";">>

\* print -(4 - 1) / 2; print !(1 == 2); print 3 > 2; print 0 / 0 == 0 / 0;
SRC_ops ==
  <<"p", "r", "i", "n", "t", " ", "-", "(", "4", " ", "-", " ", "1", ")",
    " ", "/", " ", "2", ";", " ", "p", "r", "i", "n", "t", " ", "!", "(",
    "1", " ", "=", "=", " ", "2", ")", ";", " ", "p", "r", "i", "n", "t",
    " ", "3", " ", ">", " ", "2", ";", " ", "p", "r", "i", "n", "t", " ",
    "0", " ", "/", " ", "0", " ", "=", "=", " ", "0", " ", "/", " ", "0", ";">>

\* if (1 > 2) print 1; else print 2; if (nil) print 3;
SRC_if_else ==
  <<"i", "f", " ", "(", "1", " ", ">", " ", "2", ")", " ", "p", "r", "i",
    "n", "t", " ", "1", ";", " ", "e", "l", "s", "e", " ", "p", "r", "i",
    "n", "t", " ", "2", ";", " ", "i", "f", " ", "(", "n", "i", "l", ")",
    " ", "p", "r", "i", "n", "t", " ", "3", ";">>

\* print hello();
SRC_native ==
  <<"p", "r", "i", "n", "t", " ", "h", "e", "l", "l", "o", "(", ")", ";">>

\* var x = 1; x();
SRC_call_number ==
  <<"v", "a", "r", " ", "x", " ", "=", " ", "1", ";", " ", "x", "(", ")", ";">>

\* 
\* fun f() { return 1; } print f(3);
SRC_arity0 ==
  <<"f", "u", "n", " ", "f", "(", ")", " ", "{", " ", "r", "e", "t", "u",
    "r", "n", " ", "1", ";", " ", "}", " ", "p", "r", "i", "n", "t", " ",
    "f", "(", "3", ")", ";">>

\* { var a = 1; var a = 2; }
SRC_dup_local ==
  <<"{", " ", "v", "a", "r", " ", "a", " ", "=", " ", "1", ";", " ", "v",
    "a", "r", " ", "a", " ", "=", " ", "2", ";", " ", "}">>

\* { var a = 1; { var a = 2; print a; } }
SRC_shadow_local ==
  <<"{", " ", "v", "a", "r", " ", "a", " ", "=", " ", "1", ";", " ", "{",
    " ", "v", "a", "r", " ", "a", " ", "=", " ", "2", ";", " ", "p", "r",
    "i", "n", "t", " ", "a", ";", " ", "}", " ", "}">>

\* { var a; fun g() {} print 1; }
SRC_local_decls ==
  <<"{", " ", "v", "a", "r", " ", "a", ";", " ", "f", "u", "n", " ", "g",
    "(", ")", " ", "{", "}", " ", "p", "r", "i", "n", "t", " ", "1", ";",
    " ", "}">>

\* 1 + 2; print 3;
SRC_expr_stmt ==
  <<"1", " ", "+", " ", "2", ";", " ", "p", "r", "i", "n", "t", " ", "3", ";">>

\* if (true) print false;
SRC_if_then ==
  <<"i", "f", " ", "(", "t", "r", "u", "e", ")", " ", "p", "r", "i", "n",
    "t", " ", "f", "a", "l", "s", "e", ";">>

\* print 1 2; print 3;
SRC_two_numbers ==
  <<"p", "r", "i", "n", "t", " ", "1", " ", "2", ";", " ", "p", "r", "i",
    "n", "t", " ", "3", ";">>

\* # print 1;
SRC_bad_char ==
  <<"#", " ", "p", "r", "i", "n", "t", " ", "1", ";">>

\* fun f(n) { n = 1; return n; } print f(7);
SRC_param_set ==
  <<"f", "u", "n", " ", "f", "(", "n", ")", " ", "{", " ", "n", " ", "=",
    " ", "1", ";", " ", "r", "e", "t", "u", "r", "n", " ", "n", ";", " ",
    "}", " ", "p", "r", "i", "n", "t", " ", "f", "(", "7", ")", ";">>

\* { var a = 1; { var b = 2; print b;
SRC_open_block ==
  <<"{", " ", "v", "a", "r", " ", "a", " ", "=", " ", "1", ";", " ", "{",
    " ", "v", "a", "r", " ", "b", " ", "=", " ", "2", ";", " ", "p", "r",
    "i", "n", "t", " ", "b", ";">>

\* { var a = 1; { var b = 2 print b; } }
SRC_block_error ==
  <<"{", " ", "v", "a", "r", " ", "a", " ", "=", " ", "1", ";", " ", "{",
    " ", "v", "a", "r", " ", "b", " ", "=", " ", "2", " ", "p", "r", "i",
    "n", "t", " ", "b", ";", " ", "}", " ", "}">>

\* fun f() {} print f == f; print "a" == "a"; print nil == 1;
SRC_equal_tags ==
  <<"f", "u", "n", " ", "f", "(", ")", " ", "{", "}", " ", "p", "r", "i",
    "n", "t", " ", "f", " ", "=", "=", " ", "f", ";", " ", "p", "r", "i",
    "n", "t", " ", "\"", "a", "\"", " ", "=", "=", " ", "\"", "a", "\"", ";",
    " ", "p", "r", "i", "n", "t", " ", "n", "i", "l", " ", "=", "=", " ",
    "1", ";">>

\* fun f() { var a = 1; var b = a; return b; } print f();
SRC_local_chain ==
  <<"f", "u", "n", " ", "f", "(", ")", " ", "{", " ", "v", "a", "r", " ",
    "a", " ", "=", " ", "1", ";", " ", "v", "a", "r", " ", "b", " ", "=",
    " ", "a", ";", " ", "r", "e", "t", "u", "r", "n", " ", "b", ";", " ",
    "}", " ", "p", "r", "i", "n", "t", " ", "f", "(", ")", ";">>

SRC_empty ==
  <<>>

Sources ==
  {SRC_arith,
   SRC_concat,
   SRC_shadow,
   SRC_fib,
   SRC_while,
   SRC_undefined,
   SRC_arity,
   SRC_self_init,
   SRC_no_semi,
   SRC_bad_expr,
   SRC_param1,
   SRC_param2,
   SRC_param3,
   SRC_no_return,
   SRC_no_return_arg,
   SRC_call_const,
   SRC_recurse,
   SRC_locals2,
   SRC_local1,
   SRC_locals_set,
   SRC_and_tf,
   SRC_and_nil,
   SRC_or_false,
   SRC_or_true,
   SRC_for_false,
   SRC_for_two,
   SRC_while_false,
   SRC_while_local,
   SRC_while_nested,
   SRC_set_undefined,
   SRC_set_defined,
   SRC_get_in_fun,
   SRC_ops,
   SRC_if_else,
   SRC_native,
   SRC_call_number,
   SRC_arity0,
   SRC_dup_local,
   SRC_shadow_local,
   SRC_local_decls,
   SRC_expr_stmt,
   SRC_if_then,
   SRC_two_numbers,
   SRC_bad_char,
   SRC_param_set,
   SRC_open_block,
   SRC_block_error,
   SRC_equal_tags,
   SRC_local_chain,
   SRC_empty}

\* compile() is a function of the source text alone
Compiled == [s \in Sources |-> compile(s)]

(***************************************************************************)
(* The state machine: run_file() of main.rs.  VM::new, one call of         *)
(* VM::interpret, then VM::free.  Every pass of the loop in VM::run is one *)
(* step, named after the opcode it dispatches to.                          *)
(***************************************************************************)
VARIABLES
  stack,     \* VM.stack
  globals,   \* VM.globals
  frames,    \* VM.frames
  source,    \* VM.source
  stdout,    \* the lines println! has written
  stderr,    \* the diagnostics eprintln! has written
  result,    \* what interpret returned last; "None" before it returns
  pc,        \* "new", "run", "done", "exit"; "abort" after a panic;
             \* "parse" and "parsed" where the parser is stepped on its own
  calls,     \* how many times interpret has been called on this VM
  tokens,    \* a LexerIterator: its lexer and is_eof
  yielded,   \* what the calls of tokens.next() have returned, in order
  parser     \* a Parser inside parse(), NoParser elsewhere

\* the value of parser where no Parser is stepped
NoParser == [source |-> <<>>]

vars ==
  <<stack, globals, frames, source, stdout, stderr, result, pc, calls,
    tokens, yielded, parser>>

\* the variables of the lexer and of the parser stepped on their own
lexvars == <<tokens, yielded, parser>>

\* the variables of the VM and of its driver
vmvars == <<stack, globals, frames, source, stdout, stderr, result, pc, calls>>

\* HashMap::new()
EmptyGlobals == [n \in {} |-> Nil]

\* VM::new
NewVM ==
  /\ stack = <<>>
  /\ globals = EmptyGlobals
  /\ frames = <<>>
  /\ source = <<>>
  /\ stdout = <<>>
  /\ stderr = <<>>
  /\ result = "None"
  /\ pc = "new"
  /\ calls = 0

Init ==
  /\ NewVM
  /\ tokens = Lexer_iter(Lexer_new(<<>>))
  /\ yielded = <<>>
  /\ parser = NoParser

\* the machine record of the current state
Cur ==
  [stack |-> stack, globals |-> globals, frames |-> frames,
   stdout |-> stdout, stderr |-> stderr, status |-> "run"]

\* the state a handler leaves behind
Commit(M) ==
  /\ stack' = M.stack
  /\ globals' = M.globals
  /\ frames' = M.frames
  /\ stdout' = M.stdout
  /\ stderr' = M.stderr
  /\ result' = IF M.status \in {"Ok", "CompileError", "RuntimeError"}
                 THEN M.status ELSE result
  /\ pc' = CASE M.status = "run" -> "run"
             [] M.status = "Panic" -> "abort"
             [] OTHER -> "done"

\* VM::interpret up to the call of run()
VM_interpret(M, compiled) ==
  LET M1 == [VM_populate_native_fn(M) EXCEPT
               !.stderr = @ \o compiled.reported]
  IN IF compiled.crashed THEN VM_panic(M1)
     ELSE IF ~compiled.ok THEN [M1 EXCEPT !.status = "CompileError"]
     ELSE LET M2 == [M1 EXCEPT !.frames =
                       Append(@, CallFrame_new(compiled.function, 0, 0))]
          IN IF Chunk_len(compiled.function.chunk) = 0
               THEN [M2 EXCEPT !.status = "Ok"]
               ELSE M2

Interpret ==
  /\ pc = "new"
  /\ \E s \in Sources :
       /\ source' = s
       /\ Commit(VM_interpret(Cur, Compiled[s]))
  /\ calls' = calls + 1
  /\ UNCHANGED lexvars

\* the opcode VM::run is about to dispatch on
Running == pc = "run" /\ VM_operand_in_range(Cur)

NextOp == OpCode_from_usize(VM_current_instruction(Cur))

\* the match arm of VM::run that op selects
Dispatch(op) == Running /\ NextOp = op

\* the machine after next_opcode() has read the opcode
Fetched == VM_next_opcode(Cur)

\* the rest of the pass once the handler has left M: the test at the bottom
\* of the loop
Step(M) == Commit(VM_loop_end(M)) /\ UNCHANGED <<source, calls, lexvars>>

VM_nil(M) == VM_push_value(M, Nil)

VM_true(M) == VM_push_value(M, Bool(TRUE))

VM_false(M) == VM_push_value(M, Bool(FALSE))

OpReturn == Dispatch(OP_RETURN) /\ Step(VM_return_op(Fetched))
OpConstant == Dispatch(OP_CONSTANT) /\ Step(VM_constant(Fetched))
OpNegate == Dispatch(OP_NEGATE) /\ Step(VM_negate(Fetched))
OpNot == Dispatch(OP_NOT) /\ Step(VM_not(Fetched))
OpAdd == Dispatch(OP_ADD) /\ Step(VM_add(Fetched))
OpSubtract == Dispatch(OP_SUBTRACT) /\ Step(VM_subtract(Fetched))
OpMultiply == Dispatch(OP_MULTIPLY) /\ Step(VM_multiply(Fetched))
OpDivide == Dispatch(OP_DIVIDE) /\ Step(VM_divide(Fetched))
OpNil == Dispatch(OP_NIL) /\ Step(VM_nil(Fetched))
OpTrue == Dispatch(OP_TRUE) /\ Step(VM_true(Fetched))
OpFalse == Dispatch(OP_FALSE) /\ Step(VM_false(Fetched))
OpEqual == Dispatch(OP_EQUAL) /\ Step(VM_equal(Fetched))
OpGreater == Dispatch(OP_GREATER) /\ Step(VM_greater(Fetched))
OpLess == Dispatch(OP_LESS) /\ Step(VM_less(Fetched))
OpPrint == Dispatch(OP_PRINT) /\ Step(VM_print(Fetched))
OpPop == Dispatch(OP_POP) /\ Step(VM_pop(Fetched))
OpDefineGlobal == Dispatch(OP_DEFINE_GLOBAL) /\ Step(VM_define_global(Fetched))
OpGetGlobal == Dispatch(OP_GET_GLOBAL) /\ Step(VM_get_global(Fetched))
OpSetGlobal == Dispatch(OP_SET_GLOBAL) /\ Step(VM_set_global(Fetched))
OpGetLocal == Dispatch(OP_GET_LOCAL) /\ Step(VM_get_local(Fetched))
OpSetLocal == Dispatch(OP_SET_LOCAL) /\ Step(VM_set_local(Fetched))
OpJumpIfFalse == Dispatch(OP_JUMP_IF_FALSE) /\ Step(VM_jump_if_false(Fetched))
OpJump == Dispatch(OP_JUMP) /\ Step(VM_jump(Fetched))
OpLoop == Dispatch(OP_LOOP) /\ Step(VM_loop_op(Fetched))
OpCall == Dispatch(OP_CALL) /\ Step(VM_call_op(Fetched))

\* VM::free, called by run_file once interpret has returned
Free ==
  /\ pc = "done"
  /\ pc' = "exit"
  /\ frames' = <<>>
  /\ stack' = <<>>
  /\ globals' = EmptyGlobals
  /\ UNCHANGED <<source, stdout, stderr, result, calls, lexvars>>

\* the loop of VM::run: one pass per step
VM_run ==
  \/ OpReturn \/ OpConstant \/ OpNegate \/ OpNot
  \/ OpAdd \/ OpSubtract \/ OpMultiply \/ OpDivide
  \/ OpNil \/ OpTrue \/ OpFalse
  \/ OpEqual \/ OpGreater \/ OpLess
  \/ OpPrint \/ OpPop
  \/ OpDefineGlobal \/ OpGetGlobal \/ OpSetGlobal
  \/ OpGetLocal \/ OpSetLocal
  \/ OpJumpIfFalse \/ OpJump \/ OpLoop
  \/ OpCall

Next == Interpret \/ VM_run \/ Free

Spec == Init /\ [][Next]_vars

\* run() is a sequential loop: a pass that can be made is made
FairSpec == Spec /\ WF_vars(VM_run)

(***************************************************************************)
(* Expressions of two binary operators, compiled and run: `print 1 op1 2   *)
(* op2 3;` for every pair of the operators Parser::binary knows            *)
(***************************************************************************)
\* the text of each binary operator and what binary() emits for it
BinaryOperators ==
  {[text |-> <<"+">>, code |-> <<OP_ADD>>],
   [text |-> <<"-">>, code |-> <<OP_SUBTRACT>>],
   [text |-> <<"*">>, code |-> <<OP_MULTIPLY>>],
   [text |-> <<"/">>, code |-> <<OP_DIVIDE>>],
   [text |-> <<"=", "=">>, code |-> <<OP_EQUAL>>],
   [text |-> <<"!", "=">>, code |-> <<OP_EQUAL, OP_NOT>>],
   [text |-> <<">">>, code |-> <<OP_GREATER>>],
   [text |-> <<">", "=">>, code |-> <<OP_LESS, OP_NOT>>],
   [text |-> <<"<">>, code |-> <<OP_LESS>>],
   [text |-> <<"<", "=">>, code |-> <<OP_GREATER, OP_NOT>>]}

\* print 1 op1 2 op2 3;
ExprSource(op1, op2) ==
  <<"p", "r", "i", "n", "t", " ", "1", " ">> \o op1.text \o <<" ", "2", " ">>
    \o op2.text \o <<" ", "3", ";">>

ExprSources == {ExprSource(op1, op2) : op1, op2 \in BinaryOperators}

ExprCompiled == [s \in ExprSources |-> compile(s)]

ExprInterpret ==
  /\ pc = "new"
  /\ \E s \in ExprSources :
       /\ source' = s
       /\ Commit(VM_interpret(Cur, ExprCompiled[s]))
  /\ calls' = calls + 1
  /\ UNCHANGED lexvars

\* the arms of VM::run these programs reach
ExprRun ==
  \/ OpReturn \/ OpConstant \/ OpNot
  \/ OpAdd \/ OpSubtract \/ OpMultiply \/ OpDivide
  \/ OpNil
  \/ OpEqual \/ OpGreater \/ OpLess
  \/ OpPrint

ExprNext == ExprInterpret \/ ExprRun \/ Free

ExprSpec == Init /\ [][ExprNext]_vars

(***************************************************************************)
(* The prompt: repl() interprets line after line on one VM                 *)
(***************************************************************************)
\* var hello = 1;
SRC_var_hello ==
  <<"v", "a", "r", " ", "h", "e", "l", "l", "o", " ", "=", " ", "1", ";">>

\* what is typed at the prompt
ReplSources ==
  {SRC_arith, SRC_ops, SRC_if_else, SRC_while_local, SRC_set_defined,
   SRC_param1, SRC_undefined, SRC_if_then, SRC_var_hello}

\* read_line keeps the newline that ends the line
ReplLines == {Append(s, "\n") : s \in ReplSources}

CompiledLines == [l \in ReplLines |-> compile(l)]

\* how many lines are typed
MaxLines == 2

\* one pass of the loop of repl(): a line is read and interpreted on the VM
\* that interpreted the lines before it
Repl_interpret ==
  /\ pc \in {"new", "done"}
  /\ calls < MaxLines
  /\ \E l \in ReplLines :
       /\ source' = l
       /\ Commit(VM_interpret(Cur, CompiledLines[l]))
  /\ calls' = calls + 1
  /\ UNCHANGED lexvars

\* the input ends with `exit` and no newline: the loop breaks and repl()
\* calls free()
Repl_exit ==
  /\ pc \in {"new", "done"}
  /\ pc' = "exit"
  /\ frames' = <<>>
  /\ stack' = <<>>
  /\ globals' = EmptyGlobals
  /\ UNCHANGED <<source, stdout, stderr, result, calls, lexvars>>

ReplNext == Repl_interpret \/ VM_run \/ Repl_exit

ReplSpec == Init /\ [][ReplNext]_vars

(***************************************************************************)
(* VM::run on its own: the loop dispatching on the words of a short chunk  *)
(***************************************************************************)
OP_UNKNOWN == 25

\* the largest instruction word of the chunks
MaxWord == 25

Words == 0..MaxWord

\* the chunks of one or two words
WordLists == {<<w>> : w \in Words} \cup {<<w, x>> : w \in Words, x \in Words}

\* a chunk of these words with the one constant 1, written on line 1
ChunkOf(words) ==
  [instructions |-> words,
   constants |-> <<Number(1, 1)>>,
   loc |-> [i \in 1..Len(words) |-> Loc(1, i - 1)]]

\* run() is entered with the frame of the script on the frame stack
DecodeInit ==
  /\ stack = <<>>
  /\ globals = EmptyGlobals
  /\ \E words \in WordLists :
       frames = <<CallFrame_new(Function_new(0, ChunkOf(words), NoName), 0, 0)>>
  /\ source = <<>>
  /\ stdout = <<>>
  /\ stderr = <<>>
  /\ result = "None"
  /\ pc = "run"
  /\ calls = 1
  /\ tokens = Lexer_iter(Lexer_new(<<>>))
  /\ yielded = <<>>
  /\ parser = NoParser

\* OpCode::Unknown => return InterpretResult::CompileError
OpUnknown ==
  /\ Dispatch(OP_UNKNOWN)
  /\ Commit([Fetched EXCEPT !.status = "CompileError"])
  /\ UNCHANGED <<source, calls, lexvars>>

DecodeNext == VM_run \/ OpUnknown

DecodeSpec == DecodeInit /\ [][DecodeNext]_vars

\* for (; false; ) print 1;
SRC_for_empty ==
  <<"f", "o", "r", " ", "(", ";", " ", "f", "a", "l", "s", "e", ";", " ",
    ")", " ", "p", "r", "i", "n", "t", " ", "1", ";">>

\* for (;;) print 1;
SRC_for_forever ==
  <<"f", "o", "r", " ", "(", ";", ";", ")", " ", "p", "r", "i", "n", "t",
    " ", "1", ";">>

\* a + b = c;
SRC_assign_sum ==
  <<"a", " ", "+", " ", "b", " ", "=", " ", "c", ";">>

\* a * b = c;
SRC_assign_product ==
  <<"a", " ", "*", " ", "b", " ", "=", " ", "c", ";">>

\* { var x = 1; x = 2; }
SRC_set_local ==
  <<"{", " ", "v", "a", "r", " ", "x", " ", "=", " ", "1", ";", " ", "x",
    " ", "=", " ", "2", ";", " ", "}">>

\* print 1.5 + 2;
SRC_decimal_sum ==
  <<"p", "r", "i", "n", "t", " ", "1", ".", "5", " ", "+", " ", "2", ";">>

\* the sources parsed without being run
ParseSources ==
  Sources \cup {SRC_for_empty, SRC_for_forever, SRC_assign_sum,
                SRC_assign_product, SRC_set_local, SRC_decimal_sum}

(***************************************************************************)
(* The parser stepped on its own: the loop of Parser::parse, one           *)
(* declaration per step                                                    *)
(***************************************************************************)
\* parse() has made its first advance()
ParseInit ==
  /\ stack = <<>>
  /\ globals = EmptyGlobals
  /\ frames = <<>>
  /\ source = <<>>
  /\ stdout = <<>>
  /\ stderr = <<>>
  /\ result = "None"
  /\ pc = "parse"
  /\ calls = 0
  /\ tokens = Lexer_iter(Lexer_new(<<>>))
  /\ yielded = <<>>
  /\ \E s \in ParseSources : parser = Parser_advance(Parser_new(s))

\* one pass of `while !self.match_token(TokenType::Eof) { declaration() }`;
\* a panic of the compiler ends parse() where it is
ParseDeclaration ==
  /\ pc = "parse"
  /\ ~parser.crashed
  /\ ~Parser_check_type(parser, "Eof")
  /\ parser' = Parser_declaration(parser)
  /\ UNCHANGED <<vmvars, tokens, yielded>>

\* match_token(Eof) succeeds and parse() goes on to end_parse()
ParseEnd ==
  /\ pc = "parse"
  /\ ~parser.crashed
  /\ Parser_check_type(parser, "Eof")
  /\ parser' = Parser_end_parse(Parser_advance(parser))
  /\ pc' = "parsed"
  /\ UNCHANGED <<stack, globals, frames, source, stdout, stderr, result,
                 calls, tokens, yielded>>

ParseNext == ParseDeclaration \/ ParseEnd

ParseSpec == ParseInit /\ [][ParseNext]_vars

(***************************************************************************)
(* One chunk and the operations on it: Chunk::write, Chunk::add_constant   *)
(* and Chunk::clear, and Parser::patch_jump on the chunk of a parser's     *)
(* frame, in any order                                                     *)
(***************************************************************************)
\* Chunk::clear
Chunk_clear(chunk) ==
  [chunk EXCEPT !.instructions = <<>>, !.constants = <<>>, !.loc = <<>>]

\* how long the chunk grows, and how many constants it gets
MaxCode == 3

MaxConstants == 1

\* the words written: an opcode without operand, one with, and the
\* placeholder of emit_jump
ChunkWords == {OP_NIL, OP_JUMP, USIZE_MAX}

\* a parser whose script frame holds the chunk
ChunkInit ==
  /\ stack = <<>>
  /\ globals = EmptyGlobals
  /\ frames = <<>>
  /\ source = <<>>
  /\ stdout = <<>>
  /\ stderr = <<>>
  /\ result = "None"
  /\ pc = "chunk"
  /\ calls = 0
  /\ tokens = Lexer_iter(Lexer_new(<<>>))
  /\ yielded = <<>>
  /\ parser = Parser_new(<<>>)

ChunkWrite ==
  /\ pc = "chunk"
  /\ Chunk_len(Parser_current_chunk(parser)) < MaxCode
  /\ \E op \in ChunkWords, line \in 1..2 :
       parser' = [parser EXCEPT !.frames[1].function.chunk =
                                   Chunk_write(@, op, line, 0)]
  /\ UNCHANGED <<vmvars, tokens, yielded>>

ChunkAddConstant ==
  /\ pc = "chunk"
  /\ Len(Parser_current_chunk(parser).constants) < MaxConstants
  /\ parser' = [parser EXCEPT !.frames[1].function.chunk =
                                 Chunk_add_constant(@, Number(1, 1))]
  /\ UNCHANGED <<vmvars, tokens, yielded>>

\* patch_jump(offset) for an offset inside the chunk, as emit_jump returns
\* it; what is kept of the call for the properties is dropped here
ChunkPatchJump ==
  /\ pc = "chunk"
  /\ \E offset \in 0..(Chunk_len(Parser_current_chunk(parser)) - 1) :
       parser' = [Parser_patch_jump(parser, offset) EXCEPT !.patched = {}]
  /\ UNCHANGED <<vmvars, tokens, yielded>>

ChunkClear ==
  /\ pc = "chunk"
  /\ parser' = [parser EXCEPT !.frames[1].function.chunk = Chunk_clear(@)]
  /\ UNCHANGED <<vmvars, tokens, yielded>>

ChunkNext == ChunkWrite \/ ChunkAddConstant \/ ChunkPatchJump \/ ChunkClear

ChunkSpec == ChunkInit /\ [][ChunkNext]_vars

(***************************************************************************)
(* The lexer stepped on its own: the commented loop of run_file            *)
(* (`for maybe_token in lexer.iter()`) over one source                     *)
(***************************************************************************)
\* the sixteen reserved words and the token kind of each
Keywords ==
  {[word |-> <<"a", "n", "d">>, token_type |-> "And"],
   [word |-> <<"c", "l", "a", "s", "s">>, token_type |-> "Class"],
   [word |-> <<"e", "l", "s", "e">>, token_type |-> "Else"],
   [word |-> <<"f", "a", "l", "s", "e">>, token_type |-> "False"],
   [word |-> <<"f", "o", "r">>, token_type |-> "For"],
   [word |-> <<"f", "u", "n">>, token_type |-> "Fun"],
   [word |-> <<"i", "f">>, token_type |-> "If"],
   [word |-> <<"n", "i", "l">>, token_type |-> "Nil"],
   [word |-> <<"o", "r">>, token_type |-> "Or"],
   [word |-> <<"p", "r", "i", "n", "t">>, token_type |-> "Print"],
   [word |-> <<"r", "e", "t", "u", "r", "n">>, token_type |-> "Return"],
   [word |-> <<"s", "u", "p", "e", "r">>, token_type |-> "Super"],
   [word |-> <<"t", "h", "i", "s">>, token_type |-> "This"],
   [word |-> <<"t", "r", "u", "e">>, token_type |-> "True"],
   [word |-> <<"v", "a", "r">>, token_type |-> "Var"],
   [word |-> <<"w", "h", "i", "l", "e">>, token_type |-> "While"]}

\* 1.5
LEX_fraction ==
  <<"1", ".", "5">>

\* 1.5 + x
LEX_fraction_sum ==
  <<"1", ".", "5", " ", "+", " ", "x">>

\* /* a*b */ c
LEX_star_comment ==
  <<"/", "*", " ", "a", "*", "b", " ", "*", "/", " ", "c">>

\* // x
LEX_line_comment_end ==
  <<"/", "/", " ", "x">>

\* // x\ny
LEX_line_comment ==
  <<"/", "/", " ", "x", "\n", "y">>

\* /* ab */ c
LEX_block_comment ==
  <<"/", "*", " ", "a", "b", " ", "*", "/", " ", "c">>

\* "hi" != nil
LEX_string ==
  <<"\"", "h", "i", "\"", " ", "!", "=", " ", "n", "i", "l">>

\* classy fund
LEX_classy ==
  <<"c", "l", "a", "s", "s", "y", " ", "f", "u", "n", "d">>

\* a # b
LEX_bad_char ==
  <<"a", " ", "#", " ", "b">>

\* "hi
LEX_open_string ==
  <<"\"", "h", "i">>

\* #b c
LEX_bad_run ==
  <<"#", "b", " ", "c">>

\* /* x
LEX_open_comment ==
  <<"/", "*", " ", "x">>

\* 1a b
LEX_bad_number ==
  <<"1", "a", " ", "b">>

\* 1.2.3 x
LEX_two_dots ==
  <<"1", ".", "2", ".", "3", " ", "x">>

\* variable iffy
LEX_variable ==
  <<"v", "a", "r", "i", "a", "b", "l", "e", " ", "i", "f", "f", "y">>

\* orchid format
LEX_orchid ==
  <<"o", "r", "c", "h", "i", "d", " ", "f", "o", "r", "m", "a", "t">>

LexSources ==
  {k.word : k \in Keywords}
    \cup {LEX_fraction, LEX_fraction_sum, LEX_star_comment,
          LEX_line_comment_end, LEX_line_comment, LEX_block_comment,
          LEX_string, LEX_classy, LEX_bad_char, LEX_open_string,
          LEX_bad_run, LEX_open_comment, LEX_bad_number, LEX_two_dots,
          LEX_variable, LEX_orchid,
          SRC_fib, SRC_while, SRC_concat}

\* how many times next() is called again once it has returned None
MaxNoneCalls == 2

\* next() has returned None
NoneItem == [none |-> TRUE]

\* how many of the last calls returned None
RECURSIVE TrailingNones(_)
TrailingNones(items) ==
  IF items # <<>> /\ items[Len(items)] = NoneItem
    THEN 1 + TrailingNones(SubSeq(items, 1, Len(items) - 1))
    ELSE 0

LexInit ==
  /\ NewVM
  /\ \E s \in LexSources : tokens = Lexer_iter(Lexer_new(s))
  /\ yielded = <<>>
  /\ parser = NoParser

\* one call of tokens.next()
TokensNext ==
  /\ TrailingNones(yielded) <= MaxNoneCalls
  /\ tokens' = LexerIterator_next(tokens).it
  /\ yielded' = Append(yielded,
                       LET r == LexerIterator_next(tokens)
                       IN IF r.some THEN r.item ELSE NoneItem)
  /\ UNCHANGED <<vmvars, parser>>

LexNext == TokensNext

LexSpec == LexInit /\ [][LexNext]_vars

(***************************************************************************)
(* Properties of the run.  A text is a sequence of characters, stdout a    *)
(* sequence of printed lines.                                              *)
(***************************************************************************)
\* interpret has returned Ok on source s and the lines out were printed
Prints(s, out) == (pc = "done" /\ source = s) => (result = "Ok" /\ stdout = out)

\* pat occurs in text
Contains(text, pat) ==
  \E i \in 0..(Len(text) - Len(pat)) : SubSeq(text, i + 1, i + Len(pat)) = pat

\* the source reported a compile error
HadError == pc # "new" /\ Compiled[source].had_error

\* C1: once the parser has reported an error, interpret returns CompileError
\* and nothing runs: no call frame is pushed and nothing is printed.
C1_ParseErrorRunsNothing ==
  HadError => (result = "CompileError" /\ frames = <<>> /\ stdout = <<>>)

\* C2: a function called with as many arguments as it has parameters reads
\* its k-th argument through its k-th parameter, and fib(10) is 55.
C2_ParameterReadsArgument ==
  /\ Prints(SRC_param1, << <<"7">> >>)
  /\ Prints(SRC_param2, << <<"2">> >>)
  /\ Prints(SRC_param3, << <<"1">> >>)
  /\ Prints(SRC_fib, << <<"5", "5">> >>)

\* C3: a function whose body ends without a return statement returns nil.
C3_ImplicitReturnIsNil ==
  /\ Prints(SRC_no_return, <<TXT_nil>>)
  /\ Prints(SRC_no_return_arg, << <<"5">>, TXT_nil >>)

\* C5: with several locals live, reading a local yields the value last
\* stored in that local.
C5_LocalReadsOwnSlot ==
  /\ Prints(SRC_locals2, << <<"1">>, <<"2">> >>)
  /\ Prints(SRC_locals_set, << <<"3">>, <<"2">> >>)
  /\ Prints(SRC_local1, << <<"2">> >>)

\* C6: `a and b` is a when a is falsy and b otherwise; `a or b` is a when a
\* is truthy and b otherwise.
C6_ShortCircuit ==
  /\ Prints(SRC_and_tf, <<TXT_false>>)
  /\ Prints(SRC_and_nil, <<TXT_nil>>)
  /\ Prints(SRC_or_false, << <<"7">> >>)
  /\ Prints(SRC_or_true, << <<"1">> >>)

\* the instructions and the cursor of the frame on top
Code == frames[Len(frames)].function.chunk.instructions

Cursor == frames[Len(frames)].cursor

\* the instruction under the cursor has an operand, which is Operand
HasOperand == Cursor + 1 < Len(Code)

Operand == Code[Cursor + 2]

\* the value CALL finds below its Operand arguments
Callee == stack[Len(stack) - Operand]

\* CALL argc is about to run on a Function of arity argc below MAX_FRAMES
CallsFunction ==
  /\ Dispatch(OP_CALL)
  /\ HasOperand
  /\ Operand < Len(stack)
  /\ Callee.tag = "Function"
  /\ Callee.value.arity = Operand
  /\ Len(frames) < MAX_FRAMES

\* the step pushes a frame for Callee over the arguments and moves the
\* caller past the operand of CALL
PushesFrame ==
  /\ pc' = "run"
  /\ stack' = stack
  /\ Len(frames') = Len(frames) + 1
  /\ frames'[Len(frames')] =
       [function |-> Callee.value, cursor |-> 0,
        slot_base |-> Len(stack) - Operand - 1]
  /\ frames'[Len(frames)] = [frames[Len(frames)] EXCEPT !.cursor = Cursor + 2]
  /\ \A i \in 1..(Len(frames) - 1) : frames'[i] = frames[i]

\* RETURN is about to run in a called function
ReturnsToCaller == Dispatch(OP_RETURN) /\ Len(frames) > 1 /\ stack # <<>>

\* the step pops the frame, cuts the stack back to its slot base and pushes
\* the returned value; the caller's frames are as they were
PopsFrame ==
  /\ pc' = "run"
  /\ frames' = SubSeq(frames, 1, Len(frames) - 1)
  /\ stack' = Append(SubSeq(stack, 1, frames[Len(frames)].slot_base),
                     stack[Len(stack)])

\* no step moves the slot base of a frame that stays
SlotBasesStay ==
  \A i \in 1..Len(frames) :
     i <= Len(frames') => frames'[i].slot_base = frames[i].slot_base

\* every frame but the top one waits right after the operand of a CALL whose
\* argument count is the arity of the function called
CallersWait ==
  \A i \in 1..(Len(frames) - 1) :
     LET code == frames[i].function.chunk.instructions
         at == frames[i].cursor
     IN /\ at >= 2
        /\ code[at - 1] = OP_CALL
        /\ code[at] = frames[i + 1].function.arity

\* C4: CALL argc on a function of arity argc pushes a frame with cursor 0 and
\* slot base (stack height - argc - 1); RETURN pops it, cuts the stack to the
\* slot base and pushes the returned value, so the stack is argc lower than
\* before the CALL, the frame depth is restored and the caller goes on after
\* the operand of CALL.
C4_CallReturnDiscipline ==
  [][/\ CallsFunction => PushesFrame
     /\ ReturnsToCaller => PopsFrame
     /\ SlotBasesStay
     /\ CallersWait]_vars

\* a call of f(7) has returned to the script
C4_Returned ==
  /\ source = SRC_param1
  /\ pc = "run"
  /\ Len(frames) = 1
  /\ Cursor >= 2
  /\ Code[Cursor - 1] = OP_CALL
  /\ Len(stack) = 1

\* C7: a for loop runs its body as long as its condition is truthy and then
\* ends; with a condition that is falsy at first the body never runs.
C7_ForLoopEnds ==
  /\ (source \in {SRC_for_false, SRC_for_two}) ~> (pc = "done")
  /\ [](Prints(SRC_for_false, <<>>))
  /\ [](Prints(SRC_for_two, << <<"0">>, <<"1">> >>))

IsPrefix(a, b) == Len(a) <= Len(b) /\ a = SubSeq(b, 1, Len(a))

\* what source s prints, line after line, when every while loop runs its body
\* once for each truthy evaluation of its condition
PrintsInOrder(s, out) ==
  source = s => (IsPrefix(stdout, out) /\ (pc = "done" => stdout = out))

\* the script is about to run its final NIL, RETURN
AtScriptEnd == pc = "run" /\ Len(frames) = 1 /\ Cursor = Len(Code) - 2

WhileSources == {SRC_while, SRC_while_false, SRC_while_local, SRC_while_nested}

\* C8: while (c) body evaluates c before every pass, runs body once for each
\* truthy value, ends at the first falsy one, and leaves the stack as high as
\* it found it.
C8_WhileLoop ==
  /\ PrintsInOrder(SRC_while, << <<"0">>, <<"1">>, <<"2">> >>)
  /\ PrintsInOrder(SRC_while_false, << <<"2">> >>)
  /\ PrintsInOrder(SRC_while_local, << <<"0">>, <<"1">> >>)
  /\ PrintsInOrder(SRC_while_nested, << <<"2">> >>)
  /\ (source \in WhileSources /\ pc = "done") => result = "Ok"
  /\ (source \in WhileSources /\ AtScriptEnd) => stack = <<>>

\* the loop of SRC_while has run three times and ended
C8_LoopEnded ==
  /\ source = SRC_while
  /\ AtScriptEnd
  /\ stdout = << <<"0">>, <<"1">>, <<"2">> >>

\* the constant the operand names is a string: the name of a global
NamesGlobal ==
  /\ HasOperand
  /\ Operand < Len(frames[Len(frames)].function.chunk.constants)
  /\ frames[Len(frames)].function.chunk.constants[Operand + 1].tag = "String"

GlobalName == frames[Len(frames)].function.chunk.constants[Operand + 1].value

\* "Undefined variable"
TXT_undefined_variable ==
  <<"U", "n", "d", "e", "f", "i", "n", "e", "d", " ",
    "v", "a", "r", "i", "a", "b", "l", "e">>

\* the step ends the run with a diagnostic that has a line, a column and a
\* message with pat in it
Diagnoses(pat) ==
  /\ result' = "RuntimeError"
  /\ pc' = "done"
  /\ Len(stderr') = Len(stderr) + 1
  /\ stderr'[Len(stderr')].line \in Nat
  /\ stderr'[Len(stderr')].col \in Nat
  /\ Contains(stderr'[Len(stderr')].message, pat)

\* C9: GET_GLOBAL of an unbound name is a runtime error whose diagnostic says
\* `Undefined variable`, and pushes nothing; of a bound name it pushes the
\* value bound; the globals stay as they are.
C9_GetGlobal ==
  [][(Dispatch(OP_GET_GLOBAL) /\ NamesGlobal) =>
       /\ globals' = globals
       /\ IF GlobalName \in DOMAIN globals
            THEN stack' = Append(stack, globals[GlobalName])
            ELSE stack' = stack /\ Diagnoses(TXT_undefined_variable)]_vars

\* C10: SET_GLOBAL never creates a binding: on an unbound name it is a
\* runtime error and the globals stay as they are, on a bound name the
\* binding becomes the value on top of the stack; the stack is not popped.
C10_SetGlobal ==
  [][(Dispatch(OP_SET_GLOBAL) /\ NamesGlobal /\ stack # <<>>) =>
       /\ stack' = stack
       /\ DOMAIN globals' = DOMAIN globals
       /\ IF GlobalName \in DOMAIN globals
            THEN /\ globals' = [globals EXCEPT ![GlobalName] = stack[Len(stack)]]
                 /\ pc' = "run"
            ELSE /\ globals' = globals
                 /\ Diagnoses(TXT_undefined_variable)]_vars

\* x = 1 has failed on the unbound x, which is still unbound
C10_AssignedUnbound ==
  /\ source = SRC_set_undefined
  /\ pc = "done"
  /\ result = "RuntimeError"
  /\ stdout = <<>>
  /\ <<"x">> \notin DOMAIN globals

\* "Expected 2 arguments but got 1."
TXT_expected_2_got_1 ==
  <<"E", "x", "p", "e", "c", "t", "e", "d", " ", "2", " ", "a", "r", "g",
    "u", "m", "e", "n", "t", "s", " ", "b", "u", "t", " ", "g", "o", "t",
    " ", "1", ".">>

\* "Expected 0 arguments but got 1."
TXT_expected_0_got_1 ==
  <<"E", "x", "p", "e", "c", "t", "e", "d", " ", "0", " ", "a", "r", "g",
    "u", "m", "e", "n", "t", "s", " ", "b", "u", "t", " ", "g", "o", "t",
    " ", "1", ".">>

\* "Stack overflow."
TXT_stack_overflow ==
  <<"S", "t", "a", "c", "k", " ", "o", "v", "e", "r", "f", "l", "o", "w", ".">>

\* "Can't read local variable in its own initializer."
TXT_own_initializer ==
  <<"C", "a", "n", "'", "t", " ", "r", "e", "a", "d", " ", "l", "o", "c",
    "a", "l", " ", "v", "a", "r", "i", "a", "b", "l", "e", " ", "i", "n",
    " ", "i", "t", "s", " ", "o", "w", "n", " ", "i", "n", "i", "t", "i",
    "a", "l", "i", "z", "e", "r", ".">>

\* "Already a variable with this name in this scope."
TXT_already_declared ==
  <<"A", "l", "r", "e", "a", "d", "y", " ", "a", " ", "v", "a", "r", "i",
    "a", "b", "l", "e", " ", "w", "i", "t", "h", " ", "t", "h", "i", "s",
    " ", "n", "a", "m", "e", " ", "i", "n", " ", "t", "h", "i", "s", " ",
    "s", "c", "o", "p", "e", ".">>

\* the message of the diagnostic the step has written
Diagnosed == stderr'[Len(stderr')].message

\* CALL argc is about to run on a Function whose arity is not argc
CallsWithWrongCount ==
  /\ Dispatch(OP_CALL)
  /\ HasOperand
  /\ Operand < Len(stack)
  /\ Callee.tag = "Function"
  /\ Callee.value.arity # Operand

\* C11: CALL argc on a function of another arity ends the run with
\* RuntimeError and `Expected <arity> arguments but got <argc>.`; no frame is
\* pushed, the stack stays as it is and nothing of the callee runs.
C11_ArityMismatch ==
  [][/\ CallsWithWrongCount =>
          /\ Diagnoses(<<"E", "x", "p", "e", "c", "t", "e", "d", " ">>)
          /\ Len(frames') = Len(frames)
          /\ stack' = stack
          /\ stdout' = stdout
     /\ (CallsWithWrongCount /\ source = SRC_arity) =>
          Diagnosed = TXT_expected_2_got_1
     /\ (CallsWithWrongCount /\ source = SRC_arity0) =>
          Diagnosed = TXT_expected_0_got_1]_vars

\* f(1) has been refused: f and 1 are still on the stack of the script
C11_Refused ==
  /\ source = SRC_arity
  /\ pc = "done"
  /\ result = "RuntimeError"
  /\ Len(frames) = 1
  /\ Len(stack) = 2
  /\ stdout = <<>>

\* CALL is about to run on a function, with the right argument count, when
\* 255 frames are active
CallsAtLimit ==
  /\ Dispatch(OP_CALL)
  /\ HasOperand
  /\ Operand < Len(stack)
  /\ Callee.tag = "Function"
  /\ Callee.value.arity = Operand
  /\ Len(frames) = 255

Reports(message) == \E i \in 1..Len(stderr) : stderr[i].message = message

\* C13: reading a local in its own initializer is the compile error `Can't
\* read local variable in its own initializer.`, and the compile fails.
C13_OwnInitializer ==
  (source = SRC_self_init /\ pc # "new") =>
     (Reports(TXT_own_initializer) /\ result = "CompileError")

\* C14: declaring a local whose name another local of the same scope has
\* reports `Already a variable with this name in this scope.`.
C14_DuplicateLocal ==
  (source = SRC_dup_local /\ pc # "new") => Reports(TXT_already_declared)

\* the compiler has reported nothing on the source
Valid == pc # "new" /\ ~Compiled[source].had_error

\* the script itself, not a function it called, is about to run op
ScriptRuns(op) == Dispatch(op) /\ Len(frames) = 1

\* sources of which every statement is at global scope and has no local
GlobalSources ==
  {SRC_arith, SRC_concat, SRC_while, SRC_while_false, SRC_set_defined,
   SRC_get_in_fun, SRC_ops, SRC_if_else, SRC_expr_stmt, SRC_param1,
   SRC_call_const}

\* C15: a print statement, an expression statement, an if, a while and a
\* block leave the stack as high as they found it; a variable or function
\* declaration raises it by one at local scope and leaves it at global scope.
C15_StackBalance ==
  /\ (Valid /\ AtScriptEnd) => stack = <<>>
  /\ (source \in GlobalSources /\ ScriptRuns(OP_PRINT)) => Len(stack) = 1
  /\ (source \in GlobalSources /\ ScriptRuns(OP_LOOP)) => Len(stack) = 0
  /\ (source = SRC_local_decls /\ ScriptRuns(OP_PRINT)) => Len(stack) = 3
  /\ (source = SRC_locals2 /\ ScriptRuns(OP_PRINT)) => Len(stack) = 3
  /\ (source = SRC_shadow /\ ScriptRuns(OP_PRINT)) =>
        Len(stack) = IF stdout = <<>> THEN 2 ELSE 1
  /\ (source = SRC_while_local /\ ScriptRuns(OP_PRINT)) => Len(stack) = 2
  /\ (source = SRC_while_local /\ ScriptRuns(OP_LOOP)) => Len(stack) = 1
  /\ (source = SRC_while_nested /\ ScriptRuns(OP_PRINT)) => Len(stack) = 1

\* the block of SRC_local_decls, with its two declarations and its print, has
\* ended
C15_BlockEnded ==
  /\ source = SRC_local_decls
  /\ AtScriptEnd
  /\ stdout = << <<"1">> >>
  /\ stack = <<>>

\* the source the stepped lexer reads
Lexed == tokens.lexer.raw_source

\* next() has returned the token item
IsToken(item) == item # NoneItem /\ item.ok

IsEof(item) == IsToken(item) /\ item.token.token_type = "Eof"

\* C16: each of the sixteen reserved words, standing alone, is lexed as the
\* token kind of its own and not as an Identifier.
C16_KeywordKinds ==
  \A k \in Keywords :
    (Lexed = k.word /\ yielded # <<>>) =>
       /\ IsToken(yielded[1])
       /\ yielded[1].token.token_type = k.token_type

\* C17: the iterator yields one Eof token and no more: next() returns None
\* only once it has returned Eof, and from then on it returns nothing else.
C17_OneEof ==
  \A i \in 1..Len(yielded) :
    /\ IsEof(yielded[i]) => \A j \in (i + 1)..Len(yielded) : yielded[j] = NoneItem
    /\ yielded[i] = NoneItem => \E j \in 1..(i - 1) : IsEof(yielded[j])

\* next() has been called again and again after the Eof of `1.5 + x`
C17_CalledPastEof ==
  /\ Lexed = LEX_fraction_sum
  /\ Len(yielded) = 6
  /\ IsEof(yielded[4])
  /\ yielded[5] = NoneItem
  /\ yielded[6] = NoneItem

\* the spans of the tokens yielded so far, in order
RECURSIVE Spans(_)
Spans(items) ==
  IF items = <<>> THEN <<>>
  ELSE LET rest == Spans(SubSeq(items, 1, Len(items) - 1))
           last == items[Len(items)]
       IN IF IsToken(last) THEN Append(rest, last.token.literal) ELSE rest

\* C18: `current` is the number of bytes taken from the character stream, and
\* every token's span is the stretch start..current of the characters taken
\* for it: spans stay inside the source, do not overlap, and, where the
\* lexer reports no error, leave out nothing but whitespace.
C18_SpansFollowStream ==
  /\ tokens.lexer.current = tokens.lexer.pos
  /\ \A i \in 1..Len(Spans(yielded)) :
       LET span == Spans(yielded)[i] IN
       /\ span.start <= span.end
       /\ span.end <= Len(Lexed)
       /\ i > 1 => Spans(yielded)[i - 1].end <= span.start
       /\ (i > 1 /\ \A k \in 1..Len(yielded) : yielded[k] = NoneItem \/ yielded[k].ok) =>
            \A n \in (Spans(yielded)[i - 1].end + 1)..span.start :
               n <= Len(Lexed) => Lexed[n] \in Whitespace

\* C20: interpret leaves no frame and no value behind when it returns, so
\* the program of the next call starts on an empty VM and every frame that
\* runs is a frame of the program being interpreted.
C20_ResetBetweenCalls ==
  /\ pc = "done" => (frames = <<>> /\ stack = <<>>)
  /\ (pc = "run" /\ source \in ReplLines) =>
        frames[1].function = CompiledLines[source].function

Top == frames[Len(frames)]

\* the step is a pass of run() in which a handler reports a runtime error
ReportsRuntimeError == pc = "run" /\ Len(stderr') = Len(stderr) + 1

\* run() is about to execute an instruction of a script other than the one
\* being interpreted: of a program whose interpret has returned
RunsEarlierProgram ==
  /\ pc = "run"
  /\ source \in ReplLines
  /\ Top.function.name = NoName
  /\ Top.function # CompiledLines[source].function

\* C22: a runtime error is final: the pass that reports it ends the run with
\* RuntimeError, and no instruction of the failed program runs afterwards.
C22_RuntimeErrorIsFinal ==
  [][/\ ReportsRuntimeError => (pc' = "done" /\ result' = "RuntimeError")
     /\ ~RunsEarlierProgram]_vars

\* the cursor of the running frame after the step
CursorAfter == frames'[Len(frames')].cursor

\* what patch_jump was called with for the jump under the cursor
PatchOfJump ==
  {e \in Compiled[source].patched :
     e.name = Top.function.name /\ e.at = Cursor + 1}

\* what emit_loop was called with for the LOOP under the cursor
EmitOfLoop ==
  {e \in Compiled[source].looped :
     e.name = Top.function.name /\ e.at = Cursor + 1}

\* the jump under the cursor is taken: a JUMP, or a JUMP_IF_FALSE on a falsy
\* value
TakesJump ==
  \/ Dispatch(OP_JUMP) /\ HasOperand
  \/ /\ Dispatch(OP_JUMP_IF_FALSE)
     /\ HasOperand
     /\ stack # <<>>
     /\ Value_is_falsy(stack[Len(stack)])

\* C23: a jump that emit_jump wrote and patch_jump patched takes the VM to
\* the length the chunk had when it was patched, by an offset of at least 0;
\* a LOOP that emit_loop wrote takes it to loop_start, which is no more than
\* the length the chunk had.
C23_JumpRoundTrip ==
  [][/\ TakesJump =>
          /\ PatchOfJump # {}
          /\ Operand >= 0
          /\ \A e \in PatchOfJump : CursorAfter = e.len
     /\ (Dispatch(OP_LOOP) /\ HasOperand) =>
          /\ EmitOfLoop # {}
          /\ \A e \in EmitOfLoop :
               e.loop_start <= e.len /\ CursorAfter = e.loop_start]_vars

\* the loop of SRC_while has gone back three times and has then been left by
\* its JUMP_IF_FALSE
C23_Jumped ==
  /\ source = SRC_while
  /\ pc = "done"
  /\ result = "Ok"
  /\ Len(stdout) = 3

\* the keywords before which synchronize() stops
SyncKeywords ==
  {"Class", "Fun", "Var", "For", "If", "While", "Print", "Return"}

\* the parser stands where synchronize() leaves it: panic is cleared, and the
\* last token taken is a `;`, or the next one is a statement keyword or Eof
Synchronized(P) ==
  /\ ~P.panic
  /\ \/ P.previous.token_type = "Semi"
     \/ P.current.token_type \in SyncKeywords \cup {"Eof"}

\* C24: the declaration in which the first error is reported ends
\* synchronized, the tokens up to a `;` or a statement keyword discarded and
\* panic cleared, and had_error stays true from the first error on.
C24_PanicMode ==
  [][/\ (pc = "parse" /\ ~parser.had_error /\ parser'.had_error) =>
          Synchronized(parser')
     /\ parser.had_error => parser'.had_error]_vars

\* the parser's advance() has met a lexer error item
MetLexerError(P) ==
  \E i \in 1..Len(P.reported) : "lexer_error" \in DOMAIN P.reported[i]

\* C25: a lexer error met by advance() does not stop parsing, and marks the
\* compile as failed: when parse ends after at least one lexer error,
\* had_error is true.
C25_LexerErrorFails ==
  (pc = "parsed" /\ MetLexerError(parser)) => parser.had_error

\* next() has returned an error item
IsLexerError(item) == item # NoneItem /\ ~item.ok

\* the call of next() taken in this step returns an error item
YieldsLexerError ==
  /\ Len(yielded') = Len(yielded) + 1
  /\ IsLexerError(yielded'[Len(yielded')])

\* C26: whatever the kind of the lexer error, the call of next() that yields
\* the error item leaves the lexer at the next whitespace character or at the
\* end of the input, and the iterator goes on: it is not at its end, and the
\* tokens that follow are yielded up to Eof.
C26_ErrorRecovery ==
  [][YieldsLexerError =>
       /\ Lexer_peek(tokens'.lexer) \in Whitespace \cup {""}
       /\ ~tokens'.is_eof
       /\ LexerIterator_next(tokens').some]_vars

\* the sources of words that only start with a keyword, and their first word
KeywordPrefixed ==
  {[source |-> LEX_variable, word |-> 8],
   [source |-> LEX_orchid, word |-> 6],
   [source |-> LEX_classy, word |-> 6]}

\* C27: a word that merely starts with a keyword is lexed by longest match,
\* as one Identifier token spanning the whole word, and not as a keyword
\* token followed by another token.
C27_LongestMatch ==
  \A w \in KeywordPrefixed :
    (Lexed = w.source /\ yielded # <<>>) =>
       /\ IsToken(yielded[1])
       /\ yielded[1].token.token_type = "Identifier"
       /\ yielded[1].token.literal = [start |-> 0, end |-> w.word]

\* C28: shadowing across scopes is allowed: declaring a local with the name
\* of a local of an enclosing scope reports no error.
C28_ShadowingAllowed ==
  (source = SRC_shadow_local /\ pc # "new") =>
     \A i \in 1..Len(Compiled[source].reported) :
        Compiled[source].reported[i].message
          # "Already a variable with this name in this scope."

\* the parser inside for_statement, about to handle the initializer clause:
\* it has taken `for` and `(` and opened the scope
AtForInitializer(P) ==
  Parser_consume(Parser_begin_scope(Parser_advance(P)), "LeftParen",
                 "Expected '(' after 'for'.")

\* C29: the initializer handling of a `for` whose initializer is empty takes
\* the `;` of the initializer and nothing else: the `;` is the last token
\* taken, one token has been pulled from the lexer, and no code is emitted.
C29_EmptyInitializer ==
  (pc = "parse" /\ Parser_check_type(parser, "For")) =>
     LET P == AtForInitializer(parser) IN
     Parser_check_type(P, "Semi") =>
        /\ Parser_for_initializer(P).previous = P.current
        /\ Parser_for_initializer(P).pulled = P.pulled + 1
        /\ Parser_current_chunk(Parser_for_initializer(P))
             = Parser_current_chunk(P)

\* the opcodes next() reads an operand for
WithOperand ==
  {OP_CONSTANT, OP_DEFINE_GLOBAL, OP_GET_GLOBAL, OP_SET_GLOBAL, OP_GET_LOCAL,
   OP_SET_LOCAL, OP_JUMP, OP_JUMP_IF_FALSE, OP_LOOP, OP_CALL}

OperandSlots(op) == IF op \in WithOperand THEN 1 ELSE 0

\* the positions of the opcodes of code, decoded in order from position i
RECURSIVE OpcodePositions(_, _)
OpcodePositions(code, i) ==
  IF i >= Len(code) THEN {}
  ELSE {i} \cup OpcodePositions(code, i + 1 + OperandSlots(code[i + 1]))

\* every opcode of code is a defined one and has its operand slots inside
\* code, and every jump and loop lands on the position of an opcode: jump and
\* jump_if_false add the operand to the cursor past the operand, loop_op
\* takes it from the cursor on the operand
AlignedAt(code, positions) ==
  \A i \in positions :
    /\ code[i + 1] \in 0..24
    /\ i + OperandSlots(code[i + 1]) < Len(code)
    /\ code[i + 1] \in {OP_JUMP, OP_JUMP_IF_FALSE} =>
         (i + 2 + code[i + 2]) \in positions
    /\ code[i + 1] = OP_LOOP => (i + 1 - code[i + 2]) \in positions

Aligned(code) == AlignedAt(code, OpcodePositions(code, 0))

\* the chunk of function and the chunks of the functions among its constants
RECURSIVE ChunksOf(_)
ChunksOf(function) ==
  {function.chunk} \cup
    UNION {ChunksOf(function.chunk.constants[k].value) :
             k \in {n \in 1..Len(function.chunk.constants) :
                      function.chunk.constants[n].tag = "Function"}}

\* C30: every chunk the compiler has produced is aligned, each opcode
\* followed by the operand slots it mandates and each jump or loop landing
\* on an opcode, and the VM, started at cursor 0, has the cursor of every
\* frame on the position of an opcode: it decodes no operand slot as an
\* opcode and reads nothing past the end of the code.
C30_Alignment ==
  pc = "run" =>
     /\ \A c \in ChunksOf(Compiled[source].function) : Aligned(c.instructions)
     /\ \A k \in 1..Len(frames) :
          /\ frames[k].function.chunk \in ChunksOf(Compiled[source].function)
          /\ frames[k].cursor
               \in OpcodePositions(frames[k].function.chunk.instructions, 0)

\* the loop of `while` has jumped back once and the VM, having decoded the
\* body again, stands on the LOOP instruction and its operand
C30_Decoding ==
  /\ source = SRC_while
  /\ pc = "run"
  /\ Len(stdout) = 2
  /\ Dispatch(OP_LOOP)
  /\ HasOperand



\* C31: while a program runs, the slot_base of every frame is at most the
\* length of the stack, slot bases do not decrease from the oldest frame to
\* the newest, and the stack entry at the slot_base of every frame made by
\* CALL is the Function of that frame: no local access of the program has
\* overwritten it.
C31_SlotBase ==
  pc = "run" =>
     /\ \A k \in 1..Len(frames) : frames[k].slot_base <= Len(stack)
     /\ \A k \in 2..Len(frames) :
          /\ frames[k - 1].slot_base <= frames[k].slot_base
          /\ frames[k].slot_base < Len(stack)
          /\ stack[frames[k].slot_base + 1] = FunctionValue(frames[k].function)

\* C32: every end_scope takes one from scope_depth and removes exactly the
\* locals declared since the begin_scope it closes, emitting one POP for each
\* and nothing else, and leaves no local deeper than the new scope_depth;
\* this is so too when the closing `}` is missing and when an error was
\* reported before.
C32_ScopeRelease ==
  pc \in {"parse", "parsed"} =>
     \A e \in parser.closed :
       /\ e.depth_left = e.depth - 1
       /\ e.removed = e.declared
       /\ e.emitted = [i \in 1..Len(e.removed) |-> OP_POP]
       /\ \A i \in 1..Len(e.left) : e.left[i].depth <= e.depth_left

\* parse has ended on `{ var a = 1; { var b = 2; print b;`: both blocks were
\* closed at Eof, after the errors for the missing `}`, and each released
\* its one local
C32_ClosedAtEof ==
  /\ pc = "parsed"
  /\ parser.source = SRC_open_block
  /\ \E e \in parser.closed :
        e.at = "Eof" /\ e.had_error /\ e.depth = 2 /\ Len(e.removed) = 1
  /\ \E e \in parser.closed :
        e.at = "Eof" /\ e.had_error /\ e.depth = 1 /\ Len(e.removed) = 1



\* the level of a binary operator in the grammar: equality, comparison,
\* term, factor, from the loosest to the tightest
Level(op) ==
  CASE op.text \in {<<"=", "=">>, <<"!", "=">>} -> 1
    [] op.text \in {<<">">>, <<">", "=">>, <<"<">>, <<"<", "=">>} -> 2
    [] op.text \in {<<"+">>, <<"-">>} -> 3
    [] op.text \in {<<"*">>, <<"/">>} -> 4

\* CONSTANT k, the code of the operand with index k
Load(k) == <<OP_CONSTANT, k>>

\* the code `print a op1 b op2 c;` is to compile to
ExprCode(op1, op2) ==
  (IF Level(op2) > Level(op1)
     THEN Load(0) \o Load(1) \o Load(2) \o op2.code \o op1.code
     ELSE Load(0) \o Load(1) \o op1.code \o Load(2) \o op2.code)
  \o <<OP_PRINT, OP_NIL, OP_RETURN>>

\* C33: `a op1 b op2 c` compiles to `a b c OP2 OP1` when op2 binds tighter
\* than op1 and to `a b OP1 c OP2` otherwise, for every pair of binary
\* operators, and `print 1 + 2 * 3;` prints 7.
C33_Precedence ==
  /\ \A op1, op2 \in BinaryOperators :
       (source = ExprSource(op1, op2) /\ pc = "run") =>
          /\ frames[1].function.chunk.instructions = ExprCode(op1, op2)
          /\ frames[1].function.chunk.constants
               = <<Number(1, 1), Number(2, 1), Number(3, 1)>>
          /\ stderr = <<>>
  /\ (source = SRC_arith /\ pc = "done") =>
        (stdout = <<<<"7">>>> /\ result = "Ok")

\* `print 1 + 2 * 3;` has run to its end
C33_Printed == source = SRC_arith /\ pc = "done" /\ stdout # <<>>



\* the parser P has reported a diagnostic with this message
ParserReports(P, message) ==
  \E i \in 1..Len(P.reported) :
    "message" \in DOMAIN P.reported[i] /\ P.reported[i].message = message

\* the instructions of the script once parse has ended
Script(P) == P.frames[1].function.chunk.instructions

\* C34: an `=` after an expression that is no variable, as in `a + b = c;`
\* and `a * b = c;`, is reported as `Invalid assignment target.`; `x = e` on
\* a variable is not, and compiles to the code of e followed by SET_GLOBAL or
\* SET_LOCAL.
C34_AssignmentTarget ==
  pc = "parsed" =>
     /\ parser.source \in {SRC_assign_sum, SRC_assign_product} =>
          ParserReports(parser, "Invalid assignment target.")
     /\ parser.source = SRC_set_undefined =>
          /\ ~ParserReports(parser, "Invalid assignment target.")
          /\ SubSeq(Script(parser), 1, 5)
               = <<OP_CONSTANT, 1, OP_SET_GLOBAL, 0, OP_POP>>
     /\ parser.source = SRC_set_local =>
          /\ ~ParserReports(parser, "Invalid assignment target.")
          /\ Script(parser)
               = <<OP_CONSTANT, 0, OP_CONSTANT, 1, OP_SET_LOCAL, 0, OP_POP,
                   OP_POP, OP_NIL, OP_RETURN>>

\* parse has ended on `a + b = c;` with the error reported
C34_Reported ==
  /\ pc = "parsed"
  /\ parser.source = SRC_assign_sum
  /\ parser.had_error
  /\ Len(Script(parser)) > 2



\* a and b have the same tag and the same value
SameValue(a, b) ==
  /\ a.tag = b.tag
  /\ IF a.tag = "Number" THEN F64_eq(a, b) ELSE a = b

\* C35: EQUAL pops b and then a and pushes Bool(true) exactly when a and b
\* have the same tag and the same value, whatever the tag: a function value
\* compared with itself is equal, and values of different tags are not.
C35_Equal ==
  [][(Dispatch(OP_EQUAL) /\ Len(stack) >= 2) =>
       stack' = Append(SubSeq(stack, 1, Len(stack) - 2),
                       Bool(SameValue(stack[Len(stack) - 1],
                                      stack[Len(stack)])))]_vars

\* the step is a call of interpret on a VM that has interpreted before
InterpretsAgain == pc = "done" /\ pc' # "exit" /\ calls' = calls + 1

\* C36: globals persist from one interpret call to the next on the same VM:
\* every name bound when a later call begins is bound to the same value when
\* that call starts to run its program, the name of a native function
\* included.
C36_GlobalsPersist ==
  [][InterpretsAgain =>
       \A n \in DOMAIN globals :
          n \in DOMAIN globals' /\ globals'[n] = globals[n]]_vars

\* C37: the slot of every GET_LOCAL and SET_LOCAL emitted inside a function
\* is below the number of locals of the function that are live where it is
\* emitted, its parameters included.
C37_SlotInFrame ==
  pc \in {"parse", "parsed"} =>
     \A e \in parser.slots : e.frames > 1 => e.slot < e.live

\* the chunk the operations work on, before and after the step
TheChunk == parser.frames[1].function.chunk

ChunkAfter == parser'.frames[1].function.chunk

\* the positions at which the step has changed the instructions
Rewritten ==
  {i \in 1..Len(TheChunk.instructions) :
     i > Len(ChunkAfter.instructions)
       \/ ChunkAfter.instructions[i] # TheChunk.instructions[i]}

\* C38: whatever the order of write, add_constant, patch_jump and clear, the
\* chunk has as many locations as instructions, and patch_jump changes the
\* one operand slot it patches and nothing else of the chunk.
C38_LocPerInstruction ==
  [][pc = "chunk" =>
       /\ Len(ChunkAfter.instructions) = Len(ChunkAfter.loc)
       /\ \A offset \in 0..(Chunk_len(TheChunk) - 1) :
            parser' = [Parser_patch_jump(parser, offset) EXCEPT !.patched = {}]
              => /\ Len(ChunkAfter.instructions) = Len(TheChunk.instructions)
                 /\ Rewritten \subseteq {offset + 1}
                 /\ ChunkAfter.loc = TheChunk.loc
                 /\ ChunkAfter.constants = TheChunk.constants]_vars

\* a placeholder written after an opcode has been patched: the chunk is
\* JUMP 1 NIL
C38_Patched ==
  /\ pc = "chunk"
  /\ TheChunk.instructions = <<OP_JUMP, 1, OP_NIL>>
  /\ Len(TheChunk.loc) = 3



\* every call of declaration() so far, the nested ones of blocks and
\* function bodies too, has pulled a lexer item or was made at Eof
EveryDeclarationConsumes ==
  \A d \in parser.declared : d.pulled >= 1 \/ d.at = "Eof"

\* C39: compilation terminates: parse() is not left by a panic, every call
\* of declaration() pulls at least one token or is made at Eof, and when the
\* loop of parse() has ended the script's compile frame is the only one.
C39_CompilationTerminates ==
  pc \in {"parse", "parsed"} =>
    /\ ~parser.crashed
    /\ EveryDeclarationConsumes
    /\ pc = "parsed" => Len(parser.frames) = 1

=============================================================================
